---- MODULE Spec2Model ----
(***************************************************************************)
(* sms-dev: message lifecycle (messages router), its list, export and      *)
(* conversation queries, webhook delivery with retry (WebhookService), the *)
(* webhook routes, the socket handlers (rooms, replies), the conversation  *)
(* flows of the dev router, the events they emit on the socket server, and *)
(* the configuration loading of the CLI.                                   *)
(*                                                                         *)
(* Time is counted in ticks of TickMs milliseconds.  Every setTimeout is   *)
(* a countdown; a timer fires when its countdown is 0, and time advances   *)
(* from one timer's due time to the next, never past a due timer.          *)
(***************************************************************************)
EXTENDS Integers, Sequences, FiniteSets, TLC

VARIABLES
    now,             \* wall clock, in ticks (Date.now / new Date())
    messages,        \* messages router: the in-memory Map id -> Message
    timers,          \* pending lifecycle setTimeout callbacks
    emitted,         \* what io.emit has sent to every connected client, in order
    response,        \* last HTTP response of the messages router
    config,          \* WebhookService.config
    webhookHistory,  \* WebhookService.webhookHistory
    nextWebhookId,   \* number of webhook ids generated so far
    dl,              \* calls of sendInboundMessageWebhook, by call slot
    rooms,           \* socket server: the rooms each connected socket has joined
    inbox,           \* what each connected socket has been sent in its rooms
    loaded,          \* CLI: the last call of loadConfig and what it returned
    execution        \* dev router: the run of executeFlowSteps

vars == <<now, messages, timers, emitted, response, config, webhookHistory,
          nextWebhookId, dl, rooms, inbox, loaded, execution>>

lifecycleVars == <<messages, timers, response>>
webhookVars == <<config, webhookHistory, nextWebhookId, dl>>
socketVars == <<rooms, inbox>>

(***************************************************************************)
(* Bounds                                                                  *)
(***************************************************************************)
MaxMessages == 2
MaxClock == 1
MaxDeliveries == 1
MaxSteps == 3

(***************************************************************************)
(* Program constants                                                       *)
(***************************************************************************)
SentDelayMs == 500
DeliveredDelayMs == 1000
CostCents == 1
DefaultRetries == 3
DefaultTimeoutMs == 5000
HistoryCap == 100
BackoffBaseMs == 1000
StatusNoResponse == 0
StatusSkipped == -1

DefaultFrom == "+15551234567"

\* the unit of time: the shortest timer; every other delay is a multiple of it
TickMs == SentDelayMs

\* a JavaScript undefined (an optional field that is not set)
Undefined == "<undefined>"

Ticks(ms) == ms \div TickMs

RECURSIVE Pow2(_)
Pow2(n) == IF n <= 0 THEN 1 ELSE 2 * Pow2(n - 1)

Min(a, b) == IF a < b THEN a ELSE b

(***************************************************************************)
(* Inputs of the send endpoint                                             *)
(***************************************************************************)
ToInputs == {"", "+15550001111", "+447700900123"}
FromInputs == {"", "+15559876543"}
BodyInputs == {"", "hi"}

MessageIds == 1..MaxMessages

(***************************************************************************)
(* messages router                                                         *)
(***************************************************************************)

SendValidToOnly(to, body) == to \notin {Undefined, ""}

\* express-validator chain of POST /: to and body are non-empty strings
\* (a field that is missing is not a string)
SendValid(to, body) == to \notin {Undefined, ""} /\ body \notin {Undefined, ""}

\* from || '+15551234567'
FromOrDefault(from) == IF from = "" THEN DefaultFrom ELSE from

NewMessageAlreadySent(id, to, from, body) ==
    [id |-> id, to |-> to, from |-> FromOrDefault(from), body |-> body,
     status |-> "sent", created_at |-> now, cost |-> CostCents]

NewMessage(id, to, from, body) ==
    [id |-> id, to |-> to, from |-> FromOrDefault(from), body |-> body,
     status |-> "queued", created_at |-> now, cost |-> CostCents]

\* body of the 201 response
SendResponseBody(m) ==
    [id |-> m.id, to |-> m.to, from |-> m.from, body |-> m.body,
     status |-> "queued", created_at |-> m.created_at, cost |-> m.cost]

EmitTwice(log, event, payload) ==
    log \o <<[event |-> event, payload |-> payload],
             [event |-> event, payload |-> payload]>>

\* io.emit(event, payload): the payload is serialised when it is emitted
Emit(log, event, payload) == Append(log, [event |-> event, payload |-> payload])

MarkSentSkipsSent(m) == [m EXCEPT !.status = "delivered"]

MarkSentChargesAgain(m) == [m EXCEPT !.status = "sent", !.cost = @ + CostCents]

\* the record written by the first timer callback
MarkSent(m) == [m EXCEPT !.status = "sent"]

MarkDeliveredNoStamp(m) == [m EXCEPT !.status = "delivered"]

MarkDeliveredKeepsStatus(m) == [delivered_at |-> now] @@ m

\* the record written by the second timer callback
MarkDelivered(m) == [delivered_at |-> now] @@ [m EXCEPT !.status = "delivered"]

\* POST /v1/messages
SendMessage(to, from, body) ==
    /\ IF ~SendValid(to, body)
       THEN /\ response' = [op |-> "send", code |-> 400]
            /\ UNCHANGED <<messages, timers>>
       ELSE /\ Cardinality(DOMAIN messages) < MaxMessages
            /\ LET id == Cardinality(DOMAIN messages) + 1
                   m == NewMessage(id, to, from, body)
               IN /\ messages' = messages @@ (id :> m)
                  /\ timers' = timers \cup
                        {[id |-> id, stage |-> "sent", left |-> Ticks(SentDelayMs)]}
                  /\ response' = [op |-> "send", code |-> 201,
                                  body |-> SendResponseBody(m)]
    /\ UNCHANGED <<now, emitted>>
    /\ UNCHANGED webhookVars
    /\ UNCHANGED socketVars
    /\ UNCHANGED <<loaded, execution>>

SentTimerFiresAlone(t) ==
    /\ t \in timers
    /\ t.stage = "sent"
    /\ t.left = 0
    /\ timers' = timers \ {t}
    /\ IF t.id \in DOMAIN messages
       THEN LET storedMessage == MarkSent(messages[t.id])
            IN /\ messages' = [messages EXCEPT ![t.id] = storedMessage]
               /\ emitted' = Emit(emitted, "message:updated", storedMessage)
       ELSE UNCHANGED <<messages, emitted>>
    /\ UNCHANGED <<now, response>>
    /\ UNCHANGED webhookVars
    /\ UNCHANGED socketVars
    /\ UNCHANGED <<loaded, execution>>

\* first setTimeout callback of POST /v1/messages (500 ms)
SentTimerFires(t) ==
    /\ t \in timers
    /\ t.stage = "sent"
    /\ t.left = 0
    /\ IF t.id \in DOMAIN messages
       THEN LET storedMessage == MarkSent(messages[t.id])
            IN /\ messages' = [messages EXCEPT ![t.id] = storedMessage]
               /\ emitted' = Emit(emitted, "message:updated", storedMessage)
               /\ timers' = (timers \ {t}) \cup
                     {[id |-> t.id, stage |-> "delivered",
                       left |-> Ticks(DeliveredDelayMs)]}
       ELSE /\ timers' = timers \ {t}
            /\ UNCHANGED <<messages, emitted>>
    /\ UNCHANGED <<now, response>>
    /\ UNCHANGED webhookVars
    /\ UNCHANGED socketVars
    /\ UNCHANGED <<loaded, execution>>

\* nested setTimeout callback of POST /v1/messages (1000 ms)
DeliveredTimerFires(t) ==
    /\ t \in timers
    /\ t.stage = "delivered"
    /\ t.left = 0
    /\ timers' = timers \ {t}
    /\ IF t.id \in DOMAIN messages
       THEN LET deliveredMessage == MarkDelivered(messages[t.id])
            IN /\ messages' = [messages EXCEPT ![t.id] = deliveredMessage]
               /\ emitted' = Emit(emitted, "message:updated", deliveredMessage)
       ELSE UNCHANGED <<messages, emitted>>
    /\ UNCHANGED <<now, response>>
    /\ UNCHANGED webhookVars
    /\ UNCHANGED socketVars
    /\ UNCHANGED <<loaded, execution>>

\* what GET /v1/messages/:id answers
GetMessageResponse(id) ==
    IF id \in DOMAIN messages
    THEN [op |-> "get", code |-> 200, body |-> messages[id]]
    ELSE [op |-> "get", code |-> 404]

\* GET /v1/messages/:id
GetMessage(id) ==
    /\ response' = GetMessageResponse(id)
    /\ UNCHANGED <<now, messages, timers, emitted>>
    /\ UNCHANGED webhookVars
    /\ UNCHANGED socketVars
    /\ UNCHANGED <<loaded, execution>>

(***************************************************************************)
(* Strings                                                                 *)
(***************************************************************************)
\* the characters of the strings the program looks into
Chars(s) ==
    CASE s = "+15550001111" ->
            <<"+", "1", "5", "5", "5", "0", "0", "0", "1", "1", "1", "1">>
      [] s = "+447700900123" ->
            <<"+", "4", "4", "7", "7", "0", "0", "9", "0", "0", "1", "2", "3">>
      [] s = "+15551234567" ->
            <<"+", "1", "5", "5", "5", "1", "2", "3", "4", "5", "6", "7">>
      [] s = "+15559876543" ->
            <<"+", "1", "5", "5", "5", "9", "8", "7", "6", "5", "4", "3">>
      [] s = "+1555" -> <<"+", "1", "5", "5", "5">>
      [] s = "ACME" -> <<"A", "C", "M", "E">>
      [] s = "acme" -> <<"a", "c", "m", "e">>
      [] s = "hi" -> <<"h", "i">>
      [] s = "BOB" -> <<"B", "O", "B">>
      [] s = "Hi Bob" -> <<"H", "i", " ", "B", "o", "b">>
      [] s = "hello" -> <<"h", "e", "l", "l", "o">>
      [] s = "5001" -> <<"5", "0", "0", "1">>
      [] s = "7001" -> <<"7", "0", "0", "1">>
      [] s = "99999" -> <<"9", "9", "9", "9", "9">>
      [] s = "invalid" -> <<"i", "n", "v", "a", "l", "i", "d">>
      [] s = "debug" -> <<"d", "e", "b", "u", "g">>
      [] s = "info" -> <<"i", "n", "f", "o">>
      [] s = "warn" -> <<"w", "a", "r", "n">>
      [] s = "error" -> <<"e", "r", "r", "o", "r">>
      [] s = "loud" -> <<"l", "o", "u", "d">>
      [] s = "http://test.com/webhook" ->
            <<"h", "t", "t", "p", ":", "/", "/", "t", "e", "s", "t", ".",
              "c", "o", "m", "/", "w", "e", "b", "h", "o", "o", "k">>
      [] s = "" -> <<>>

\* String.prototype.toLowerCase
ToLowerCase(cs) ==
    LET upper == <<"A", "B", "C", "D", "E", "F", "G", "H", "I", "J", "K", "L", "M",
                   "N", "O", "P", "Q", "R", "S", "T", "U", "V", "W", "X", "Y", "Z">>
        lower == <<"a", "b", "c", "d", "e", "f", "g", "h", "i", "j", "k", "l", "m",
                   "n", "o", "p", "q", "r", "s", "t", "u", "v", "w", "x", "y", "z">>
    IN [i \in DOMAIN cs |->
          IF \E k \in DOMAIN upper : upper[k] = cs[i]
          THEN lower[CHOOSE k \in DOMAIN upper : upper[k] = cs[i]]
          ELSE cs[i]]

\* String.prototype.includes
Includes(cs, part) ==
    \E i \in 0..(Len(cs) - Len(part)) : SubSeq(cs, i + 1, i + Len(part)) = part

\* String.prototype.startsWith
StartsWith(cs, prefix) ==
    Len(prefix) <= Len(cs) /\ SubSeq(cs, 1, Len(prefix)) = prefix

(***************************************************************************)
(* messages router: list and export                                        *)
(***************************************************************************)
DefaultLimit == 20

\* a numeric query parameter: not in the query string, or given
Absent == [has |-> FALSE, val |-> 0]
Given(v) == [has |-> TRUE, val |-> v]

\* a request without a query string
NoQuery ==
    [limit |-> Absent, offset |-> Absent, search |-> Undefined,
     status |-> Undefined, phone |-> Undefined, from_date |-> Absent,
     to_date |-> Absent]

\* the parameters of b added to those of a
WithParameters(a, b) ==
    [limit |-> IF b.limit.has THEN b.limit ELSE a.limit,
     offset |-> IF b.offset.has THEN b.offset ELSE a.offset,
     search |-> IF b.search # Undefined THEN b.search ELSE a.search,
     status |-> IF b.status # Undefined THEN b.status ELSE a.status,
     phone |-> IF b.phone # Undefined THEN b.phone ELSE a.phone,
     from_date |-> IF b.from_date.has THEN b.from_date ELSE a.from_date,
     to_date |-> IF b.to_date.has THEN b.to_date ELSE a.to_date]

\* the query strings that pass validation and supply one parameter, or none; a
\* text parameter that is not supplied is undefined
OneParameter ==
    {[NoQuery EXCEPT !.limit = v] : v \in {Absent, Given(1), Given(2)}}
    \cup {[NoQuery EXCEPT !.offset = Given(1)],
          [NoQuery EXCEPT !.search = "BOB"],
          [NoQuery EXCEPT !.status = "sent"],
          [NoQuery EXCEPT !.phone = "acme"],
          [NoQuery EXCEPT !.from_date = Given(1)],
          [NoQuery EXCEPT !.to_date = Given(2)]}

\* the query strings of the list requests: any two parameters together
Queries == {WithParameters(a, b) : a, b \in OneParameter}

\* Array.from(messages.values()): a Map iterates in insertion order
StoredMessages(msgs) == [i \in 1..Cardinality(DOMAIN msgs) |-> msgs[i]]

\* if (search), if (status), if (phone): the parameter is a non-empty string
Supplied(text) == text # Undefined /\ text # ""

SearchMatches(m, search) ==
    LET searchLower == ToLowerCase(Chars(search))
    IN \/ Includes(ToLowerCase(Chars(m.body)), searchLower)
       \/ Includes(ToLowerCase(Chars(m.to)), searchLower)
       \/ Includes(ToLowerCase(Chars(m.from)), searchLower)

PhoneMatches(m, phone) ==
    LET phoneLower == ToLowerCase(Chars(phone))
    IN \/ Includes(ToLowerCase(Chars(m.to)), phoneLower)
       \/ Includes(ToLowerCase(Chars(m.from)), phoneLower)

NotBeforeExclusive(m, fromTimestamp) == m.created_at > fromTimestamp

\* new Date(message.created_at).getTime() >= fromTimestamp
NotBefore(m, fromTimestamp) == m.created_at >= fromTimestamp

\* new Date(message.created_at).getTime() <= toTimestamp
NotAfter(m, toTimestamp) == m.created_at <= toTimestamp

\* the filters of the list route, applied one after the other
ListFiltered(msgs, q) ==
    LET all == StoredMessages(msgs)
        searched == IF Supplied(q.search)
                    THEN SelectSeq(all, LAMBDA m : SearchMatches(m, q.search))
                    ELSE all
        byStatus == IF Supplied(q.status)
                    THEN SelectSeq(searched, LAMBDA m : m.status = q.status)
                    ELSE searched
        byPhone == IF Supplied(q.phone)
                   THEN SelectSeq(byStatus, LAMBDA m : PhoneMatches(m, q.phone))
                   ELSE byStatus
        fromDate == IF q.from_date.has
                    THEN SelectSeq(byPhone, LAMBDA m : NotBefore(m, q.from_date.val))
                    ELSE byPhone
    IN IF q.to_date.has
       THEN SelectSeq(fromDate, LAMBDA m : NotAfter(m, q.to_date.val))
       ELSE fromDate

\* Array.prototype.sort of s, compare[j, i] being what the comparator answers
\* for s[j] and s[i]: stable, s[j] goes before s[i] when compare[j, i] < 0
StableSort(s, compare) ==
    LET before(j, i) == compare[j, i] < 0 \/ (compare[j, i] = 0 /\ j < i)
        place(i) == Cardinality({j \in DOMAIN s : before(j, i)}) + 1
    IN [k \in DOMAIN s |-> s[CHOOSE i \in DOMAIN s : place(i) = k]]

OldestFirstInList(a, b) == a.created_at - b.created_at

\* the comparator of the list route (newest first)
NewestFirst(a, b) == b.created_at - a.created_at

\* the comparator of the export route (oldest first)
OldestFirst(a, b) == a.created_at - b.created_at

\* Array.prototype.slice(start, end)
Slice(s, start, end) == SubSeq(s, start + 1, Min(end, Len(s)))

HasMoreAtEnd(offset, limit, total) == offset + limit <= total

\* has_more: offset + limit < total
HasMore(offset, limit, total) == offset + limit < total

\* body of the list response (each intermediate list is computed once: it is
\* bound as the element of a one-element set)
ListResponse(msgs, q) ==
    LET \* parseInt(req.query.limit) || 20, parseInt(req.query.offset) || 0
        limit == IF q.limit.has /\ q.limit.val # 0 THEN q.limit.val ELSE DefaultLimit
        offset == IF q.offset.has THEN q.offset.val ELSE 0
        sorted(matching) ==
            StableSort(matching, [j, i \in DOMAIN matching |->
                                     NewestFirst(matching[j], matching[i])])
        body(filteredMessages) ==
            [messages |-> Slice(filteredMessages, offset, offset + limit),
             pagination |->
                [limit |-> limit, offset |-> offset,
                 total |-> Len(filteredMessages),
                 has_more |-> HasMore(offset, limit, Len(filteredMessages))]]
    IN CHOOSE answer \in
          {body(filteredMessages) :
              filteredMessages \in {sorted(matching) :
                                      matching \in {ListFiltered(msgs, q)}}} : TRUE

\* body of the export response (format json): the filters of the export
\* route, then its sort
ExportResponse(msgs, q) ==
    LET all == StoredMessages(msgs)
        byPhone == IF Supplied(q.phone)
                   THEN SelectSeq(all, LAMBDA m : PhoneMatches(m, q.phone))
                   ELSE all
        fromDate == IF q.from_date.has
                    THEN SelectSeq(byPhone, LAMBDA m : NotBefore(m, q.from_date.val))
                    ELSE byPhone
        matching == IF q.to_date.has
                    THEN SelectSeq(fromDate, LAMBDA m : NotAfter(m, q.to_date.val))
                    ELSE fromDate
        exportMessages ==
            StableSort(matching, [j, i \in DOMAIN matching |->
                                     OldestFirst(matching[j], matching[i])])
    IN [export_info |-> [total_messages |-> Len(exportMessages)],
        messages |-> exportMessages]

\* what the /:id handler answers for the text in the place of the id; the id
\* of a stored message is msg_ and a uuid
GetByIdResponse(msgs, idText) ==
    LET found == {id \in DOMAIN msgs : "msg_" \o ToString(id) = idText}
    IN IF found = {}
       THEN [op |-> "get", code |-> 404]
       ELSE [op |-> "get", code |-> 200, body |-> msgs[CHOOSE id \in found : TRUE]]

\* the routes of the messages router, in the order they are registered; a
\* path is the sequence of its segments
MessagesRoutes ==
    <<[method |-> "POST", path |-> <<>>, handler |-> "send"],
      [method |-> "GET", path |-> <<":id">>, handler |-> "get"],
      [method |-> "GET", path |-> <<>>, handler |-> "list"],
      [method |-> "GET", path |-> <<"export">>, handler |-> "export"],
      [method |-> "GET", path |-> <<"conversations", "export">>,
       handler |-> "conversationsExport"]>>

\* a route matches a request of its method whose path has as many segments,
\* each equal to the route's, a parameter (:id) standing for any segment
RouteMatches(route, method, path) ==
    /\ route.method = method
    /\ Len(route.path) = Len(path)
    /\ \A i \in DOMAIN path : route.path[i] = ":id" \/ route.path[i] = path[i]

\* the handler of the first route that matches, in registration order
Dispatch(method, path) ==
    LET matching == {i \in DOMAIN MessagesRoutes :
                        RouteMatches(MessagesRoutes[i], method, path)}
        first == CHOOSE i \in matching : \A j \in matching : i <= j
    IN IF matching = {} THEN "none" ELSE MessagesRoutes[first].handler

\* the GET requests made to the messages router: the list, the export and
\* one message by its id
Requests ==
    {[path |-> <<>>, query |-> q] : q \in Queries}
    \cup {[path |-> <<"export">>, query |-> q] :
            q \in {e \in Queries : /\ ~e.limit.has /\ ~e.offset.has
                                   /\ e.search = Undefined
                                   /\ e.status = Undefined}}
    \cup {[path |-> <<"msg_1">>, query |-> NoQuery]}

\* a GET request to the messages router; the response is kept with the
\* request it answers
Request(req) ==
    /\ LET handler == Dispatch("GET", req.path)
       IN /\ handler \in {"get", "list", "export"}
          /\ response' =
                [request |-> req] @@
                CASE handler = "get" -> GetByIdResponse(messages, req.path[1])
                  [] handler = "list" ->
                        [op |-> "list", code |-> 200,
                         body |-> ListResponse(messages, req.query)]
                  [] handler = "export" ->
                        [op |-> "export", code |-> 200,
                         body |-> ExportResponse(messages, req.query)]
    /\ UNCHANGED <<now, messages, timers, emitted>>
    /\ UNCHANGED webhookVars
    /\ UNCHANGED socketVars
    /\ UNCHANGED <<loaded, execution>>

(***************************************************************************)
(* dev router: conversations                                               *)
(***************************************************************************)
ApiPort == 4001

\* the ports the API server can be told to listen on
PortInputs == {ApiPort, ApiPort + 1}

\* message.to.startsWith('+1555') ? message.from : message.to
ConversationKey(m) ==
    IF StartsWith(Chars(m.to), Chars("+1555")) THEN m.from ELSE m.to

\* the body of messages.forEach: convs are the conversations so far, in the
\* order their keys first appeared
AddMessage(convs, message) ==
    LET conversationKey == ConversationKey(message)
        withKey ==
            IF \E i \in DOMAIN convs : convs[i].phoneNumber = conversationKey
            THEN convs
            ELSE Append(convs, [phoneNumber |-> conversationKey,
                                messages |-> <<>>,
                                lastActivity |-> message.created_at,
                                unreadCount |-> 0])
        at == CHOOSE i \in DOMAIN withKey : withKey[i].phoneNumber = conversationKey
    IN [withKey EXCEPT ![at] =
          [@ EXCEPT !.messages = Append(@, message),
                    !.lastActivity = IF message.created_at > @
                                     THEN message.created_at ELSE @]]

\* messages.forEach: the conversations after the first n messages
RECURSIVE GroupMessages(_, _)
GroupMessages(fetched, n) ==
    IF n = 0
    THEN <<>>
    ELSE CHOOSE after \in {AddMessage(convs, fetched[n]) :
                              convs \in {GroupMessages(fetched, n - 1)}} : TRUE

LeastRecentFirst(a, b) == a.lastActivity - b.lastActivity

\* the comparator of the conversations (most recent activity first)
MostRecentFirst(a, b) == b.lastActivity - a.lastActivity

\* what GET /conversations answers when the API server listens on port: the
\* handler fetches http://localhost:4001/v1/messages, and answers an empty
\* list when the fetch fails
ConversationsResponse(msgs, port) ==
    IF port = ApiPort
    THEN LET sorted(grouped) ==
                StableSort(grouped, [j, i \in DOMAIN grouped |->
                                        MostRecentFirst(grouped[j], grouped[i])])
             body(conversations) ==
                [conversations |-> conversations, total |-> Len(conversations)]
         IN CHOOSE answer \in
               {[op |-> "conversations", code |-> 200, body |-> body(conversations)] :
                   conversations \in
                      {sorted(grouped) :
                          grouped \in
                             {GroupMessages(fetched, Len(fetched)) :
                                 fetched \in {ListResponse(msgs, NoQuery).messages}}}} :
                  TRUE
    ELSE [op |-> "conversations", code |-> 200,
          body |-> [conversations |-> <<>>, total |-> 0]]

\* GET /v1/dev/conversations
GetConversations(port) ==
    /\ response' = ConversationsResponse(messages, port)
    /\ UNCHANGED <<now, messages, timers, emitted>>
    /\ UNCHANGED webhookVars
    /\ UNCHANGED socketVars
    /\ UNCHANGED <<loaded, execution>>

(***************************************************************************)
(* WebhookService                                                          *)
(***************************************************************************)
UrlInputs == {Undefined, "http://localhost:3000/webhook"}
TimeoutInputs == {1000}
RetryInputs == {0, 1}
HttpCodes == {200, 500}
ErrorBodies == {""}
NetErrors == {"request failed, reason: ECONNREFUSED"}
AbortMessage == "The operation was aborted."
BodyErrors == {"Premature close"}
InboundTo == {"+15550001111"}

Deliveries == 1..MaxDeliveries

\* the call slots of the running process
Calls == DOMAIN dl

\* the call is between its start and its return
InFlight(d) == dl[d].pc \in {"fetching", "backoff", "readingBody"}

\* the Partial<WebhookConfig> values handed to updateConfig: what the configure
\* route passes (url and enabled together), or one field alone; a partial naming
\* more fields has the effect of these applied one after the other
Partials ==
    LET none == [url |-> [has |-> FALSE, val |-> Undefined],
                 enabled |-> [has |-> FALSE, val |-> FALSE],
                 retries |-> [has |-> FALSE, val |-> 0],
                 timeout |-> [has |-> FALSE, val |-> 0]]
        set(k, v) == [none EXCEPT ![k] = [has |-> TRUE, val |-> v]]
    IN {[set("url", u) EXCEPT !.enabled = [has |-> TRUE, val |-> e]] :
            u \in UrlInputs, e \in BOOLEAN}
       \cup {set("url", u) : u \in UrlInputs}
       \cup {set("enabled", e) : e \in BOOLEAN}
       \cup {set("retries", n) : n \in RetryInputs}
       \cup {set("timeout", t) : t \in TimeoutInputs}

\* constructor: { retries: 3, timeout: 5000, enabled: true, ...config } with the
\* config SmsDevApiServer passes, { url: webhookUrl, enabled: !!webhookUrl }
InitialConfig(webhookUrl) ==
    [url |-> webhookUrl, retries |-> DefaultRetries, timeout |-> DefaultTimeoutMs,
     enabled |-> (webhookUrl # Undefined)]

MergeConfigResets(cfg, partial) ==
    [k \in DOMAIN cfg |->
        IF partial[k].has THEN partial[k].val ELSE InitialConfig(Undefined)[k]]

\* { ...this.config, ...config }
MergeConfig(cfg, partial) ==
    [k \in DOMAIN cfg |-> IF partial[k].has THEN partial[k].val ELSE cfg[k]]

ShouldSkipIgnoresEnabled(cfg) == cfg.url = Undefined \/ cfg.url = ""

\* !this.config.enabled || !this.config.url
ShouldSkip(cfg) == ~cfg.enabled \/ cfg.url = Undefined \/ cfg.url = ""

\* generateWebhookId
WebhookId(n) == n + 1

WebhookPayload(message) ==
    [id |-> message.id, to |-> message.to, from |-> message.from,
     body |-> message.body, received_at |-> message.created_at, type |-> "sms"]

\* the inbound message a caller of sendInboundMessageWebhook builds
InboundMessage(d, to) ==
    [id |-> d, to |-> to, from |-> "+15559876543", body |-> "hello",
     status |-> "delivered", created_at |-> now, delivered_at |-> now,
     cost |-> CostCents]

CreateSkippedWebhookEvent(message) ==
    [id |-> WebhookId(nextWebhookId), url |-> "N/A",
     payload |-> WebhookPayload(message), status |-> StatusSkipped,
     timestamp |-> now, error |-> "Webhook URL not configured", duration |-> 0]

NewWebhookEvent(message) ==
    [id |-> WebhookId(nextWebhookId), url |-> config.url,
     payload |-> WebhookPayload(message), status |-> StatusNoResponse,
     timestamp |-> now, duration |-> 0]

\* response.ok
ResponseOk(code) == code >= 200 /\ code <= 299

\* error.message || 'Network error'
MessageOrDefault(msg) == IF msg = "" THEN "Network error" ELSE msg

\* `HTTP ${response.status}: ${errorText}`
HttpErrorText(code, text) == "HTTP " \o ToString(code) \o ": " \o text

BackoffFromTwoSeconds(attempt) == Pow2(attempt) * BackoffBaseMs

\* Math.pow(2, attempt - 1) * 1000
Backoff(attempt) == Pow2(attempt - 1) * BackoffBaseMs

LoopStopsOneEarly(attempt, retries) == attempt < retries

\* for (...; attempt <= this.config.retries; ...)
LoopContinues(attempt, retries) == attempt <= retries

\* if (attempt < this.config.retries)
SleepsAfter(attempt, retries) == attempt < retries

\* this.webhookHistory.unshift(webhookEvent), cut to the first 100
PushHistoryUncapped(history, ev) == <<ev>> \o history

PushHistoryAtBack(history, ev) ==
    LET h == Append(history, ev)
    IN IF Len(h) > HistoryCap THEN SubSeq(h, 1, HistoryCap) ELSE h

PushHistory(history, ev) ==
    LET h == <<ev>> \o history
    IN IF Len(h) > HistoryCap THEN SubSeq(h, 1, HistoryCap) ELSE h

FailedEventNoError(ev, startTime, msg) ==
    [ev EXCEPT !.status = StatusNoResponse, !.duration = now - startTime]

\* the catch block of sendInboundMessageWebhook
FailedEvent(ev, startTime, msg) ==
    [error |-> MessageOrDefault(msg)] @@
    [ev EXCEPT !.status = StatusNoResponse, !.duration = now - startTime]

\* the call has returned ev: its locals are gone, what it did stays on record
Returned(rec, ev) ==
    [rec EXCEPT !.pc = "returned", !.event = ev, !.url = Undefined,
                !.startTime = 0, !.attempt = 0, !.left = 0, !.waited = 0,
                !.retries0 = 0]

\* the call has rejected: no event, no history entry, no broadcast
Threw(rec) ==
    [rec EXCEPT !.pc = "threw", !.url = Undefined, !.startTime = 0,
                !.attempt = 0, !.left = 0, !.retries0 = 0]

\* a read of this.config.retries by call rec: mixed records that the value is
\* not the one of the config the call started with
ReadRetries(rec) ==
    [rec EXCEPT !.mixed = @ \/ config.retries # rec.retries0]

\* the number of calls that have gone through lines 87-96 so far
CompletedSoFar == Cardinality({e \in Calls : dl[e].order > 0})

\* lines 87-96: history, broadcast, return
Completes(d, rec, ev) ==
    /\ webhookHistory' = PushHistory(webhookHistory, ev)
    /\ emitted' = Emit(emitted, "webhook:sent", ev)
    /\ dl' = [dl EXCEPT ![d] =
                [Returned(rec, ev) EXCEPT !.order = CompletedSoFar + 1]]

\* head of the retry loop for the given attempt number: start the fetch, or leave
\* the loop and throw lastError into the catch block of sendInboundMessageWebhook
LoopHead(d, rec, attempt) ==
    LET r == ReadRetries([rec EXCEPT !.attempt = attempt])
    IN IF LoopContinues(attempt, config.retries)
       THEN /\ dl' = [dl EXCEPT ![d] =
                        [r EXCEPT !.pc = "fetching", !.fetches = @ + 1,
                                  !.left = Ticks(config.timeout)]]
            /\ UNCHANGED <<webhookHistory, emitted>>
       ELSE IF r.lastError = Undefined
       THEN \* throw undefined; error.message in the catch block throws TypeError
            /\ dl' = [dl EXCEPT ![d] = Threw(r)]
            /\ UNCHANGED <<webhookHistory, emitted>>
       ELSE Completes(d, r, FailedEvent(r.event, r.startTime, r.lastError))

\* sendInboundMessageWebhook(message), up to its first await, as call d made
\* by origin (the simulate route, or the socket whose reply handler calls)
Deliver(d, message, origin) ==
    /\ dl[d].pc = "idle"
    /\ \A e \in Calls : e < d => dl[e].pc # "idle"
    /\ nextWebhookId' = nextWebhookId + 1
    /\ LET rec == [dl[d] EXCEPT !.origin = origin]
       IN IF ShouldSkip(config)
          THEN /\ dl' = [dl EXCEPT ![d] =
                              Returned(rec, CreateSkippedWebhookEvent(message))]
               /\ UNCHANGED <<webhookHistory, emitted>>
          ELSE LoopHead(d, [rec EXCEPT !.event = NewWebhookEvent(message),
                                       !.url = config.url,
                                       !.startTime = now,
                                       !.retries0 = config.retries], 1)

\* POST /v1/webhooks/simulate, up to the first await of the delivery
StartDelivery(d, to) ==
    /\ Deliver(d, InboundMessage(d, to), "simulate")
    /\ UNCHANGED <<now, config>>
    /\ UNCHANGED lifecycleVars
    /\ UNCHANGED socketVars
    /\ UNCHANGED <<loaded, execution>>

\* catch block of the retry loop
AttemptFails(d, msg) ==
    LET r == ReadRetries([dl[d] EXCEPT !.lastError = msg])
    IN IF SleepsAfter(r.attempt, config.retries)
       THEN /\ dl' = [dl EXCEPT ![d] = [r EXCEPT !.pc = "backoff", !.waited = 0,
                                    !.left = Ticks(Backoff(r.attempt))]]
            /\ UNCHANGED <<webhookHistory, emitted>>
       ELSE LoopHead(d, r, r.attempt + 1)

\* fetch resolves with a response
FetchResponds(d, code) ==
    /\ dl[d].pc = "fetching"
    /\ LET ev == [dl[d].event EXCEPT !.status = code,
                                     !.duration = now - dl[d].startTime]
           r == [dl[d] EXCEPT !.responded = TRUE, !.httpStatus = code]
       IN IF ResponseOk(code)
          THEN Completes(d, r, ev)
          ELSE /\ dl' = [dl EXCEPT ![d] = [r EXCEPT !.pc = "readingBody",
                                                   !.event = ev, !.left = 0]]
               /\ UNCHANGED <<webhookHistory, emitted>>
    /\ UNCHANGED <<now, config, nextWebhookId>>
    /\ UNCHANGED lifecycleVars
    /\ UNCHANGED socketVars
    /\ UNCHANGED <<loaded, execution>>

\* fetch rejects with a network error
FetchFails(d, msg) ==
    /\ dl[d].pc = "fetching"
    /\ AttemptFails(d, msg)
    /\ UNCHANGED <<now, config, nextWebhookId>>
    /\ UNCHANGED lifecycleVars
    /\ UNCHANGED socketVars
    /\ UNCHANGED <<loaded, execution>>

\* the per-attempt setTimeout fires: controller.abort() rejects the fetch
AttemptTimesOut(d) ==
    /\ dl[d].pc = "fetching"
    /\ dl[d].left = 0
    /\ AttemptFails(d, AbortMessage)
    /\ UNCHANGED <<now, config, nextWebhookId>>
    /\ UNCHANGED lifecycleVars
    /\ UNCHANGED socketVars
    /\ UNCHANGED <<loaded, execution>>

\* the sleep of the backoff resolves: next iteration of the loop
BackoffElapsed(d) ==
    /\ dl[d].pc = "backoff"
    /\ dl[d].left = 0
    /\ LoopHead(d, [dl[d] EXCEPT !.waits = Append(@, dl[d].waited)],
                dl[d].attempt + 1)
    /\ UNCHANGED <<now, config, nextWebhookId>>
    /\ UNCHANGED lifecycleVars
    /\ UNCHANGED socketVars
    /\ UNCHANGED <<loaded, execution>>

\* await response.text() resolves
BodyRead(d, text) ==
    /\ dl[d].pc = "readingBody"
    /\ Completes(d, dl[d],
           [error |-> HttpErrorText(dl[d].event.status, text)] @@ dl[d].event)
    /\ UNCHANGED <<now, config, nextWebhookId>>
    /\ UNCHANGED lifecycleVars
    /\ UNCHANGED socketVars
    /\ UNCHANGED <<loaded, execution>>

\* await response.text() rejects: the catch block of sendInboundMessageWebhook
BodyReadFails(d, msg) ==
    /\ dl[d].pc = "readingBody"
    /\ Completes(d, dl[d], FailedEvent(dl[d].event, dl[d].startTime, msg))
    /\ UNCHANGED <<now, config, nextWebhookId>>
    /\ UNCHANGED lifecycleVars
    /\ UNCHANGED socketVars
    /\ UNCHANGED <<loaded, execution>>

\* updateConfig(partial)
UpdateConfig(partial) ==
    /\ config' = MergeConfig(config, partial)
    /\ dl' = [d \in Calls |->
                IF InFlight(d) /\ config'.retries # config.retries
                THEN [dl[d] EXCEPT !.stable = FALSE]
                ELSE dl[d]]
    /\ UNCHANGED <<now, emitted, webhookHistory, nextWebhookId>>
    /\ UNCHANGED lifecycleVars
    /\ UNCHANGED socketVars
    /\ UNCHANGED <<loaded, execution>>

\* clearWebhookHistory (DELETE /v1/webhooks/history)
ClearWebhookHistory ==
    /\ webhookHistory # <<>>
    /\ webhookHistory' = <<>>
    /\ UNCHANGED <<now, emitted, config, nextWebhookId, dl>>
    /\ UNCHANGED lifecycleVars
    /\ UNCHANGED socketVars
    /\ UNCHANGED <<loaded, execution>>

\* getConfig(): { ...this.config }
GetConfig(cfg) == cfg

\* what the routes show of a URL: url ? '[CONFIGURED]' : null
Truthy(url) == url # Undefined /\ url # ""
ShownUrl(url) == IF Truthy(url) THEN "[CONFIGURED]" ELSE "null"

\* body of GET /v1/webhooks/config
ConfigResponse(cfg) ==
    [url |-> ShownUrl(GetConfig(cfg).url), enabled |-> GetConfig(cfg).enabled,
     retries |-> GetConfig(cfg).retries, timeout |-> GetConfig(cfg).timeout]

\* the values the body of POST /configure can carry in enabled
EnabledInputs == {"true", "false", Undefined}

\* what POST /v1/webhooks/configure does with the body { url, enabled }:
\* enabled is the JSON true or false, or absent (Undefined)
ConfigureRejects(url, enabled) == ~Truthy(url) /\ enabled # "false"
ConfigurePartialEnables(url, enabled) ==
    [url |-> [has |-> TRUE, val |-> IF Truthy(url) THEN url ELSE Undefined],
     enabled |-> [has |-> TRUE, val |-> TRUE],
     retries |-> [has |-> FALSE, val |-> 0],
     timeout |-> [has |-> FALSE, val |-> 0]]
ConfigurePartial(url, enabled) ==
    [url |-> [has |-> TRUE, val |-> IF Truthy(url) THEN url ELSE Undefined],
     enabled |-> [has |-> TRUE, val |-> enabled # "false"],
     retries |-> [has |-> FALSE, val |-> 0],
     timeout |-> [has |-> FALSE, val |-> 0]]
ConfigureResponse(url, enabled) ==
    IF ConfigureRejects(url, enabled)
    THEN [code |-> 400, error |-> "Missing webhook URL"]
    ELSE [code |-> 200,
          config |-> [url |-> ShownUrl(url), enabled |-> enabled # "false"]]

\* POST /v1/webhooks/configure with the body { url, enabled }
Configure(url, enabled) ==
    /\ response' = [op |-> "configure",
                    request |-> [url |-> url, enabled |-> enabled]]
                   @@ ConfigureResponse(url, enabled)
    /\ IF ConfigureRejects(url, enabled)
       THEN UNCHANGED <<config, dl>>
       ELSE /\ config' = MergeConfig(config, ConfigurePartial(url, enabled))
            /\ dl' = [d \in Calls |->
                        IF InFlight(d) /\ config'.retries # config.retries
                        THEN [dl[d] EXCEPT !.stable = FALSE]
                        ELSE dl[d]]
    /\ UNCHANGED <<now, messages, timers, emitted, webhookHistory,
                   nextWebhookId>>
    /\ UNCHANGED socketVars
    /\ UNCHANGED <<loaded, execution>>

\* the webhook part of GET /health, for the URL the server was started with
HealthResponse(webhookUrl) ==
    [configured |-> Truthy(webhookUrl), url |-> ShownUrl(webhookUrl)]

(***************************************************************************)
(* Socket handlers                                                         *)
(***************************************************************************)
Sockets == {"s1", "s2", "s3"}
PhoneInputs == {"+15550001111", "+15550002222"}

\* `conversation:${phoneNumber}`
RoomOf(phoneNumber) == "conversation:" \o phoneNumber

\* socket.on('conversation:join')
Join(s, phoneNumber) ==
    /\ rooms' = [rooms EXCEPT ![s] = @ \cup {RoomOf(phoneNumber)}]
    /\ UNCHANGED <<now, emitted, inbox>>
    /\ UNCHANGED lifecycleVars
    /\ UNCHANGED webhookVars
    /\ UNCHANGED <<loaded, execution>>

\* socket.on('conversation:leave')
Leave(s, phoneNumber) ==
    /\ rooms' = [rooms EXCEPT ![s] = @ \ {RoomOf(phoneNumber)}]
    /\ UNCHANGED <<now, emitted, inbox>>
    /\ UNCHANGED lifecycleVars
    /\ UNCHANGED webhookVars
    /\ UNCHANGED <<loaded, execution>>

ToRoomWithEcho(boxes, sender, room, event, payload) ==
    [r \in DOMAIN boxes |->
        IF room \in rooms[r]
        THEN Append(boxes[r], [event |-> event, payload |-> payload])
        ELSE boxes[r]]

\* socket.to(room).emit(event, payload): every member of room but the sender
ToRoom(boxes, sender, room, event, payload) ==
    [r \in DOMAIN boxes |->
        IF r # sender /\ room \in rooms[r]
        THEN Append(boxes[r], [event |-> event, payload |-> payload])
        ELSE boxes[r]]

ReplySendStores(s, d, to) ==
    LET inboundMessage == InboundMessage(d, to)
    IN /\ inbox' = ToRoom(inbox, s, RoomOf(to), "message:new", inboundMessage)
       /\ Deliver(d, inboundMessage, s)
       /\ messages' = messages @@
                         (Cardinality(DOMAIN messages) + 1 :> inboundMessage)
       /\ UNCHANGED <<now, config, rooms, timers, response>>
       /\ UNCHANGED <<loaded, execution>>

\* socket.on('reply:send'), up to the first await of the delivery: the reply is
\* published to the room, then sendInboundMessageWebhook is called as call d
ReplySend(s, d, to) ==
    LET inboundMessage == InboundMessage(d, to)
    IN /\ inbox' = ToRoom(inbox, s, RoomOf(to), "message:new", inboundMessage)
       /\ Deliver(d, inboundMessage, s)
       /\ UNCHANGED <<now, config, rooms>>
       /\ UNCHANGED lifecycleVars
       /\ UNCHANGED <<loaded, execution>>

(***************************************************************************)
(* CLI: loadConfig                                                         *)
(***************************************************************************)
LogLevels == {"debug", "info", "warn", "error"}

defaultConfig ==
    [apiPort |-> 4001, uiPort |-> 4000, webhookUrl |-> Undefined,
     cors |-> [enabled |-> TRUE, origins |-> <<"*">>],
     logging |-> [level |-> "info", enabled |-> TRUE]]

\* parseInt(text): the number the leading digits denote; NaN, written -1 here
\* (no input denotes a negative number), when the text starts with no digit
ParseInt(cs) ==
    LET digits == <<"0", "1", "2", "3", "4", "5", "6", "7", "8", "9">>
        isDigit(c) == \E k \in DOMAIN digits : digits[k] = c
        n == CHOOSE m \in 0..Len(cs) :
                /\ \A i \in 1..m : isDigit(cs[i])
                /\ m = Len(cs) \/ ~isDigit(cs[m + 1])
        value[i \in 0..n] ==
            IF i = 0 THEN 0
            ELSE 10 * value[i - 1]
                 + (CHOOSE k \in DOMAIN digits : digits[k] = cs[i]) - 1
    IN IF n = 0 THEN -1 ELSE value[n]

\* new URL(text) does not throw: the text starts with a scheme, here one of
\* letters, and a colon
UrlParses(cs) ==
    LET letters == {"a", "b", "c", "d", "e", "f", "g", "h", "i", "j", "k", "l",
                    "m", "n", "o", "p", "q", "r", "s", "t", "u", "v", "w", "x",
                    "y", "z", "A", "B", "C", "D", "E", "F", "G", "H", "I", "J",
                    "K", "L", "M", "N", "O", "P", "Q", "R", "S", "T", "U", "V",
                    "W", "X", "Y", "Z"}
    IN \E i \in 2..Len(cs) :
          cs[i] = ":" /\ \A j \in 1..(i - 1) : cs[j] \in letters

\* a partial configuration holding key k when present, and nothing otherwise
Setting(present, k, v) == IF present THEN k :> v ELSE <<>>

\* validateConfig(config) of the object a configuration file holds: what it
\* returns, or that it threw
validateConfig(object) ==
    LET badPort(text) ==
            /\ text # Undefined
            /\ LET port == ParseInt(Chars(text))
               IN port = -1 \/ port < 1024 \/ port > 65535
        badUrl == /\ object.webhookUrl # Undefined
                  /\ ~UrlParses(Chars(object.webhookUrl))
        cors == object.cors.val
        logging == object.logging.val
    IN IF badPort(object.apiPort) \/ badPort(object.uiPort) \/ badUrl
       THEN [threw |-> TRUE, config |-> <<>>]
       ELSE [threw |-> FALSE,
             config |->
                Setting(object.apiPort # Undefined, "apiPort",
                        ParseInt(Chars(object.apiPort)))
                @@ Setting(object.uiPort # Undefined, "uiPort",
                           ParseInt(Chars(object.uiPort)))
                @@ Setting(object.webhookUrl # Undefined, "webhookUrl",
                           object.webhookUrl)
                @@ Setting(object.cors.has, "cors",
                           [enabled |-> cors.enabled # "false",
                            origins |-> IF cors.origins.has
                                        THEN cors.origins.val ELSE <<"*">>])
                @@ Setting(object.logging.has, "logging",
                           [enabled |-> logging.enabled # "false",
                            level |-> IF logging.level \in LogLevels
                                      THEN logging.level ELSE "info"])]

loadConfigFileRethrows(files) ==
    IF files = <<>> THEN [threw |-> FALSE, found |-> FALSE, config |-> <<>>]
    ELSE [threw |-> validateConfig(files[1]).threw,
          found |-> ~validateConfig(files[1]).threw,
          config |-> validateConfig(files[1]).config]

\* loadConfigFile: files are the objects held by the files that exist at the
\* configuration paths, in the order of the paths; the first that loads and
\* validates is returned, a file that throws is warned about and passed over
loadConfigFile(files) ==
    LET loads == {i \in DOMAIN files : ~validateConfig(files[i]).threw}
    IN IF loads = {} THEN [threw |-> FALSE, found |-> FALSE, config |-> <<>>]
       ELSE [threw |-> FALSE, found |-> TRUE,
             config |->
                validateConfig(files[CHOOSE i \in loads :
                                        \A j \in loads : i <= j]).config]

\* loadEnvironmentConfig(), given process.env (SMS_DEV_CORS_ORIGINS holds one
\* origin, so that its split at the commas is the one-element list)
loadEnvironmentConfig(env) ==
    LET level == ToLowerCase(Chars(env.SMS_DEV_LOG_LEVEL))
        logLevel ==
            Setting(Truthy(env.SMS_DEV_LOG_LEVEL)
                        /\ \E v \in LogLevels : Chars(v) = level,
                    "logging",
                    [defaultConfig.logging EXCEPT
                        !.level = CHOOSE v \in LogLevels : Chars(v) = level])
    IN Setting(env.SMS_DEV_NO_UI = "true", "startUI", FALSE)
       @@ Setting(env.SMS_DEV_VERBOSE = "true", "verbose", TRUE)
       @@ Setting(env.SMS_DEV_VERBOSE = "true", "logging",
                  [(logLevel @@ defaultConfig).logging EXCEPT !.enabled = TRUE])
       @@ logLevel
       @@ Setting(Truthy(env.SMS_DEV_CORS_ORIGINS), "cors",
                  [enabled |-> TRUE, origins |-> <<env.SMS_DEV_CORS_ORIGINS>>])
       @@ Setting(Truthy(env.SMS_DEV_WEBHOOK_URL), "webhookUrl",
                  env.SMS_DEV_WEBHOOK_URL)
       @@ Setting(Truthy(env.SMS_DEV_UI_PORT), "uiPort",
                  ParseInt(Chars(env.SMS_DEV_UI_PORT)))
       @@ Setting(Truthy(env.SMS_DEV_API_PORT), "apiPort",
                  ParseInt(Chars(env.SMS_DEV_API_PORT)))

\* mergeConfig(base, override): cors and logging are the settings that hold an
\* object, which is merged key by key (no override built by loadConfig holds
\* an undefined value or a key the base lacks)
mergeConfig(base, override) ==
    [key \in DOMAIN base |->
        IF key \notin DOMAIN override THEN base[key]
        ELSE IF key \in {"cors", "logging"} THEN override[key] @@ base[key]
        ELSE override[key]]

\* loadConfig(options) under the given process.env and configuration files
loadConfig(options, env, files) ==
    LET fileConfig == loadConfigFile(files)
        start == defaultConfig @@ [startUI |-> TRUE, verbose |-> FALSE]
        afterFile == IF fileConfig.found
                     THEN mergeConfig(start, fileConfig.config) ELSE start
        afterEnv == mergeConfig(afterFile, loadEnvironmentConfig(env))
        cliConfig ==
            Setting(options.apiPort.has /\ options.apiPort.val # 0,
                    "apiPort", options.apiPort.val)
            @@ Setting(options.uiPort.has /\ options.uiPort.val # 0,
                       "uiPort", options.uiPort.val)
            @@ Setting(Truthy(options.webhookUrl), "webhookUrl",
                       options.webhookUrl)
            @@ Setting(options.startUI # Undefined, "startUI",
                       options.startUI = "true")
            @@ Setting(options.verbose # Undefined, "verbose",
                       options.verbose = "true")
    IN IF fileConfig.threw THEN [threw |-> TRUE]
       ELSE [threw |-> FALSE, config |-> mergeConfig(afterEnv, cliConfig)]

\* the objects a configuration file holds: ports and URL as their text
FileInputs ==
    {[apiPort |-> apiPort, uiPort |-> Undefined, webhookUrl |-> webhookUrl,
      cors |-> cors, logging |-> logging] :
        apiPort \in {Undefined, "5001", "invalid", "99999"},
        webhookUrl \in {Undefined, "http://test.com/webhook"},
        cors \in {Absent, Given([enabled |-> "false", origins |-> Absent])},
        logging \in {Absent, Given([enabled |-> "false", level |-> Undefined]),
                     Given([enabled |-> Undefined, level |-> "debug"])}}

EnvInputs ==
    {[SMS_DEV_API_PORT |-> apiPort, SMS_DEV_UI_PORT |-> Undefined,
      SMS_DEV_WEBHOOK_URL |-> webhookUrl, SMS_DEV_CORS_ORIGINS |-> origins,
      SMS_DEV_LOG_LEVEL |-> level, SMS_DEV_VERBOSE |-> verbose,
      SMS_DEV_NO_UI |-> Undefined] :
        apiPort \in {Undefined, "7001"},
        webhookUrl \in {Undefined, "http://env.com/webhook"},
        origins \in {Undefined, "http://localhost:3000"},
        level \in {Undefined, "debug", "loud"},
        verbose \in {Undefined, "true"}}

OptionInputs ==
    {[apiPort |-> apiPort, uiPort |-> Absent, webhookUrl |-> webhookUrl,
      startUI |-> Undefined, verbose |-> verbose] :
        apiPort \in {Absent, Given(9001)},
        webhookUrl \in {Undefined, "http://cli.com/webhook"},
        verbose \in {Undefined, "true"}}

NotLoaded == [op |-> "none"]

\* the command calls loadConfig, once in the life of the process
CallLoadConfig(options, env, files) ==
    /\ loaded = NotLoaded
    /\ loaded' = [op |-> "loadConfig", options |-> options, env |-> env,
                  files |-> files] @@ loadConfig(options, env, files)
    /\ UNCHANGED <<now, emitted, execution>>
    /\ UNCHANGED lifecycleVars
    /\ UNCHANGED webhookVars
    /\ UNCHANGED socketVars

(***************************************************************************)
(* dev router: conversation flows                                          *)
(***************************************************************************)
\* a step.message that is not a string (the create route checks the type of a
\* step only)
NotAString == "<number>"

\* the steps a stored flow can hold, before the create route numbers them;
\* conditions are the JavaScript expressions true and false, messages hold no
\* {{placeholder}}
StepInputs ==
    {[type |-> "send", message |-> message, condition |-> Undefined] :
        message \in {"hi", NotAString}}
    \cup {[type |-> "wait", message |-> Undefined, condition |-> Undefined]}
    \cup {[type |-> "condition", message |-> Undefined, condition |-> condition] :
            condition \in {"true", "false"}}

\* the steps of the flows POST /conversation-flows has stored (at least one
\* step, each given the id step_<index>)
Flows ==
    UNION {[1..n -> StepInputs] : n \in 1..MaxSteps}

\* interpolateMessage(message, context) of a message without placeholders;
\* String.prototype.replace is missing on a value that is not a string
InterpolateMessage(message) ==
    IF message = NotAString THEN [threw |-> TRUE]
    ELSE [threw |-> FALSE, value |-> message]

\* evaluateCondition(condition, context): eval of the expression
EvaluateCondition(condition) == condition = "true"

NoExecution == [pc |-> "none"]

FlowEvent(stepId) == [execution_id |-> 1, flow_id |-> 1, step_id |-> stepId]

FlowCompleted == [execution_id |-> 1, flow_id |-> 1, status |-> "completed"]

\* executeFlowSteps from the head of the loop for step i up to its next await
\* (or to its end): one iteration of the loop, and what follows the loop
RunFlowFrom(run, i) ==
    IF i > Len(run.steps)
    THEN /\ emitted' = Emit(emitted, "flow:completed", FlowCompleted)
         /\ execution' = [run EXCEPT !.pc = "done", !.next = i]
    ELSE LET step == run.steps[i]
             sends == /\ step.type = "send"
                      /\ Truthy(step.message)
                      /\ Truthy(run.targetPhone)
         IN IF sends /\ InterpolateMessage(step.message).threw
            THEN \* catch: flow:error, break out of the loop
                 /\ emitted' =
                       Emit(Emit(emitted, "flow:error",
                                 [error |-> "Step execution failed"]
                                     @@ FlowEvent(i)),
                            "flow:completed", FlowCompleted)
                 /\ execution' = [run EXCEPT !.pc = "done", !.next = i]
            ELSE /\ emitted' =
                       IF sends
                       THEN Emit(emitted, "flow:message",
                                 [message |->
                                     [to |-> run.targetPhone,
                                      from |-> DefaultFrom,
                                      body |-> InterpolateMessage(step.message).value]]
                                     @@ FlowEvent(i))
                       ELSE \* wait; condition: its break leaves the switch
                            emitted
                 /\ execution' = [run EXCEPT !.pc = "awaiting", !.next = i + 1]

\* POST /v1/dev/conversation-flows/:id/execute of a stored, active flow:
\* executeFlowSteps runs up to its first await, then 202 is answered
ExecuteFlow(steps, phone) ==
    /\ execution = NoExecution
    /\ RunFlowFrom([pc |-> "awaiting", steps |-> steps, targetPhone |-> phone,
                    next |-> 1], 1)
    /\ response' = [op |-> "execute", code |-> 202,
                    body |-> [execution_id |-> 1, flow_id |-> 1,
                              status |-> "started"]]
    /\ UNCHANGED <<now, messages, timers, loaded>>
    /\ UNCHANGED webhookVars
    /\ UNCHANGED socketVars

\* the delay between two steps is over: executeFlowSteps goes on
FlowResumes ==
    /\ execution.pc = "awaiting"
    /\ RunFlowFrom(execution, execution.next)
    /\ UNCHANGED <<now, loaded>>
    /\ UNCHANGED lifecycleVars
    /\ UNCHANGED webhookVars
    /\ UNCHANGED socketVars

(***************************************************************************)
(* Time                                                                    *)
(***************************************************************************)
\* the pending timers' remaining times
TimersLeft ==
    {t.left : t \in timers} \cup
    {dl[d].left : d \in {e \in Calls : dl[e].pc \in {"fetching", "backoff"}}}

RECURSIVE SetMin(_)
SetMin(S) ==
    LET x == CHOOSE y \in S : TRUE
    IN IF S = {x} THEN x ELSE Min(x, SetMin(S \ {x}))

\* time passes until the next timer is due (one tick when no timer is pending);
\* the clock value stops at MaxClock, the timers go on
AdvanceTime ==
    /\ 0 \notin TimersLeft
    /\ now < MaxClock \/ TimersLeft # {}
    /\ LET dt == IF TimersLeft = {} THEN 1 ELSE SetMin(TimersLeft)
       IN /\ now' = Min(now + dt, MaxClock)
          /\ timers' = {[t EXCEPT !.left = @ - dt] : t \in timers}
          /\ dl' = [d \in Calls |->
                      IF dl[d].pc \in {"fetching", "backoff"}
                      THEN [dl[d] EXCEPT !.left = @ - dt,
                              !.waited = IF dl[d].pc = "backoff" THEN @ + dt ELSE @]
                      ELSE dl[d]]
    /\ UNCHANGED <<messages, emitted, response, config, webhookHistory,
                   nextWebhookId>>
    /\ UNCHANGED socketVars
    /\ UNCHANGED <<loaded, execution>>

(***************************************************************************)
(* Specifications                                                          *)
(***************************************************************************)
IdleDelivery ==
    [pc |-> "idle", event |-> [id |-> 0], url |-> Undefined, startTime |-> 0,
     attempt |-> 0, fetches |-> 0, left |-> 0, lastError |-> Undefined,
     responded |-> FALSE, httpStatus |-> 0, waited |-> 0, waits |-> <<>>,
     stable |-> TRUE, retries0 |-> 0, mixed |-> FALSE,
     origin |-> "none", order |-> 0]

Init ==
    /\ now = 0
    /\ messages = <<>>
    /\ timers = {}
    /\ emitted = <<>>
    /\ response = [op |-> "none", code |-> 0]
    /\ \E webhookUrl \in UrlInputs : config = InitialConfig(webhookUrl)
    /\ webhookHistory = <<>>
    /\ nextWebhookId = 0
    /\ dl = [d \in Deliveries |-> IdleDelivery]
    /\ rooms = [s \in Sockets |-> {}]
    /\ inbox = [s \in Sockets |-> <<>>]
    /\ loaded = NotLoaded
    /\ execution = NoExecution

\* sends and the lifecycle timers
SchedulerNext ==
    \/ \E to \in ToInputs, from \in FromInputs, body \in BodyInputs :
          SendMessage(to, from, body)
    \/ \E t \in timers : SentTimerFires(t)
    \/ \E t \in timers : DeliveredTimerFires(t)
    \/ AdvanceTime

\* the same, among them the sends that leave out to or body
SendNext ==
    \/ \E to \in ToInputs \cup {Undefined}, from \in FromInputs,
          body \in BodyInputs \cup {Undefined} :
          SendMessage(to, from, body)
    \/ \E t \in timers : SentTimerFires(t)
    \/ \E t \in timers : DeliveredTimerFires(t)
    \/ AdvanceTime

LifecycleNext ==
    \/ SchedulerNext
    \/ \E id \in MessageIds : GetMessage(id)

WebhookNext ==
    \/ \E d \in Calls, to \in InboundTo : StartDelivery(d, to)
    \/ \E d \in Calls, code \in HttpCodes : FetchResponds(d, code)
    \/ \E d \in Calls, msg \in NetErrors : FetchFails(d, msg)
    \/ \E d \in Calls : AttemptTimesOut(d)
    \/ \E d \in Calls : BackoffElapsed(d)
    \/ \E d \in Calls, text \in ErrorBodies : BodyRead(d, text)
    \/ \E d \in Calls, msg \in BodyErrors : BodyReadFails(d, msg)
    \/ \E partial \in Partials : UpdateConfig(partial)
    \/ AdvanceTime

SocketNext ==
    \/ \E s \in Sockets, phoneNumber \in PhoneInputs : Join(s, phoneNumber)
    \/ \E s \in Sockets, phoneNumber \in PhoneInputs : Leave(s, phoneNumber)
    \/ \E s \in Sockets, d \in Calls, to \in PhoneInputs : ReplySend(s, d, to)

Next == LifecycleNext \/ WebhookNext \/ SocketNext \/ ClearWebhookHistory

\* the deliveries alone, with the configuration left as it is
DeliveryNext ==
    \/ \E d \in Calls, to \in InboundTo : StartDelivery(d, to)
    \/ \E d \in Calls, code \in HttpCodes : FetchResponds(d, code)
    \/ \E d \in Calls, msg \in NetErrors : FetchFails(d, msg)
    \/ \E d \in Calls : AttemptTimesOut(d)
    \/ \E d \in Calls : BackoffElapsed(d)
    \/ \E d \in Calls, text \in ErrorBodies : BodyRead(d, text)
    \/ \E d \in Calls, msg \in BodyErrors : BodyReadFails(d, msg)
    \/ AdvanceTime

\* the deliveries and the clearing of the history
HistoryNext == DeliveryNext \/ ClearWebhookHistory

\* a delivery that completed earlier, as the history holds it
PastEvent(n) ==
    [id |-> WebhookId(n - 1), url |-> "http://localhost:3000/webhook",
     payload |-> [id |-> 0, to |-> "+15550001111", from |-> "+15559876543",
                  body |-> "hello", received_at |-> 0, type |-> "sms"],
     status |-> 200, timestamp |-> 0, duration |-> 0]

\* the history after n deliveries that completed in the order of their ids
PastHistory(n) == [k \in 1..n |-> PastEvent(n - k + 1)]

\* one call more than MaxDeliveries, so that two calls can overlap
ConcurrentCalls == 1..(MaxDeliveries + 1)

\* a server with a webhook URL that has already made a full history's worth of
\* deliveries, or one less, none of them running any more
HistoryInit ==
    /\ now = 0
    /\ messages = <<>>
    /\ timers = {}
    /\ emitted = <<>>
    /\ response = [op |-> "none", code |-> 0]
    /\ config = InitialConfig("http://localhost:3000/webhook")
    /\ \E n \in {HistoryCap - 1, HistoryCap} :
          /\ webhookHistory = PastHistory(n)
          /\ nextWebhookId = n
    /\ dl = [d \in Deliveries |-> IdleDelivery]
    /\ rooms = [s \in Sockets |-> {}]
    /\ inbox = [s \in Sockets |-> <<>>]
    /\ loaded = NotLoaded
    /\ execution = NoExecution

\* a server with a webhook URL, just started, that can run overlapping calls
ConcurrentInit ==
    /\ now = 0
    /\ messages = <<>>
    /\ timers = {}
    /\ emitted = <<>>
    /\ response = [op |-> "none", code |-> 0]
    /\ config = InitialConfig("http://localhost:3000/webhook")
    /\ webhookHistory = <<>>
    /\ nextWebhookId = 0
    /\ dl = [d \in ConcurrentCalls |-> IdleDelivery]
    /\ rooms = [s \in Sockets |-> {}]
    /\ inbox = [s \in Sockets |-> <<>>]
    /\ loaded = NotLoaded
    /\ execution = NoExecution

\* the list, the export and the conversations, asked of a store that stays
\* as it is
QueryNext ==
    \/ \E req \in Requests : Request(req)
    \/ \E port \in PortInputs : GetConversations(port)

\* what the senders of the stored messages passed as to, from and body
StoredInputs ==
    {[to |-> "+15550001111", from |-> "", body |-> "hi"],
     [to |-> "+447700900123", from |-> "ACME", body |-> "Hi Bob"]}

\* the time at which the store is looked at
StoreHorizon == MaxClock + 2

\* the record of message id, accepted at time t, while it is queued
QueuedAt(id, in, t) ==
    [NewMessage(id, in.to, in.from, in.body) EXCEPT !.created_at = t]

\* the time at which each lifecycle timer of a message accepted at t fires
SentTime(t) == t + Ticks(SentDelayMs)
DeliveredTime(t) == SentTime(t) + Ticks(DeliveredDelayMs)

DeliveredRecord(id, in, t) ==
    [MarkDelivered(MarkSent(QueuedAt(id, in, t)))
        EXCEPT !.delivered_at = DeliveredTime(t)]

\* the record of message id, accepted at time t, as the store holds it now
StoredRecord(id, in, t) ==
    IF now < SentTime(t) THEN QueuedAt(id, in, t)
    ELSE IF now < DeliveredTime(t) THEN MarkSent(QueuedAt(id, in, t))
    ELSE DeliveredRecord(id, in, t)

\* the lifecycle timer of that message that is still pending
PendingTimers(id, t) ==
    IF now < SentTime(t)
    THEN {[id |-> id, stage |-> "sent", left |-> SentTime(t) - now]}
    ELSE IF now < DeliveredTime(t)
    THEN {[id |-> id, stage |-> "delivered", left |-> DeliveredTime(t) - now]}
    ELSE {}

\* the updates of that message emitted so far, with their times
UpdatesUntilNow(id, in, t) ==
    (IF now >= SentTime(t)
     THEN <<[time |-> SentTime(t), event |-> "message:updated",
             payload |-> MarkSent(QueuedAt(id, in, t))]>>
     ELSE <<>>)
    \o (IF now >= DeliveredTime(t)
        THEN <<[time |-> DeliveredTime(t), event |-> "message:updated",
                payload |-> DeliveredRecord(id, in, t)]>>
        ELSE <<>>)

RECURSIVE UpdatesOfStore(_, _, _)
UpdatesOfStore(n, ins, times) ==
    IF n = 0 THEN <<>>
    ELSE UpdatesOfStore(n - 1, ins, times) \o UpdatesUntilNow(n, ins[n], times[n])

EarlierFirst(a, b) == a.time - b.time

\* a server that accepted n messages at the given times and whose timers
\* fired when they were due
StoreIs(n, ins, times) ==
    /\ messages = [id \in 1..n |-> StoredRecord(id, ins[id], times[id])]
    /\ timers = UNION {PendingTimers(id, times[id]) : id \in 1..n}
    /\ emitted =
          LET fired == UpdatesOfStore(n, ins, times)
              updates == StableSort(fired, [j, i \in DOMAIN fired |->
                                              EarlierFirst(fired[j], fired[i])])
          IN [k \in DOMAIN updates |->
                [event |-> updates[k].event, payload |-> updates[k].payload]]

\* a server that accepted n messages of one kind at time 0, all delivered
\* since
OldStoreIs(n, in) ==
    /\ messages = [id \in 1..n |-> DeliveredRecord(id, in, 0)]
    /\ timers = {}
    /\ emitted =
          [k \in 1..(2 * n) |->
              [event |-> "message:updated",
               payload |-> IF k <= n THEN MarkSent(QueuedAt(k, in, 0))
                           ELSE DeliveredRecord(k - n, in, 0)]]

\* a server with up to MaxMessages messages of any kind, or with one message
\* more than a page of the list holds, accepted in the order of their ids
ListInit ==
    /\ now = StoreHorizon
    /\ \/ \E n \in 0..MaxMessages :
            \E ins \in [1..n -> StoredInputs], times \in [1..n -> 0..StoreHorizon] :
               /\ \A i, j \in 1..n : i <= j => times[i] <= times[j]
               /\ StoreIs(n, ins, times)
       \/ \E in \in StoredInputs : OldStoreIs(DefaultLimit + 1, in)
    /\ response = [op |-> "none", code |-> 0]
    /\ config = InitialConfig(Undefined)
    /\ webhookHistory = <<>>
    /\ nextWebhookId = 0
    /\ dl = [d \in Deliveries |-> IdleDelivery]
    /\ rooms = [s \in Sockets |-> {}]
    /\ inbox = [s \in Sockets |-> <<>>]
    /\ loaded = NotLoaded
    /\ execution = NoExecution

ListSpec == ListInit /\ [][QueryNext]_vars

\* configuration updates and the calls that start under them
ConfigNext ==
    \/ \E partial \in Partials : UpdateConfig(partial)
    \/ \E d \in Calls, to \in InboundTo : StartDelivery(d, to)

ConfigSpec == Init /\ [][ConfigNext]_vars
HistorySpec == HistoryInit /\ [][HistoryNext]_vars
ConcurrentSpec == ConcurrentInit /\ [][DeliveryNext]_vars
RoomSpec == Init /\ [][SocketNext]_vars

\* replies and their deliveries, under configuration updates, among sockets
\* that stay in the rooms they have joined
ReplyNext ==
    \/ \E s \in Sockets, d \in Calls, to \in PhoneInputs : ReplySend(s, d, to)
    \/ \E d \in Calls, code \in HttpCodes : FetchResponds(d, code)
    \/ \E d \in Calls, msg \in NetErrors : FetchFails(d, msg)
    \/ \E d \in Calls : AttemptTimesOut(d)
    \/ \E d \in Calls : BackoffElapsed(d)
    \/ \E d \in Calls, text \in ErrorBodies : BodyRead(d, text)
    \/ \E d \in Calls, msg \in BodyErrors : BodyReadFails(d, msg)
    \/ \E partial \in Partials : UpdateConfig(partial)
    \/ AdvanceTime

\* s1 and s2 have joined the room of the first number, s3 that of the second
JoinedRooms ==
    [s \in Sockets |->
        IF s = "s3" THEN {RoomOf("+15550002222")} ELSE {RoomOf("+15550001111")}]

ReplyInit ==
    /\ now = 0
    /\ messages = <<>>
    /\ timers = {}
    /\ emitted = <<>>
    /\ response = [op |-> "none", code |-> 0]
    /\ \E webhookUrl \in UrlInputs : config = InitialConfig(webhookUrl)
    /\ webhookHistory = <<>>
    /\ nextWebhookId = 0
    /\ dl = [d \in Deliveries |-> IdleDelivery]
    /\ rooms = JoinedRooms
    /\ inbox = [s \in Sockets |-> <<>>]
    /\ loaded = NotLoaded
    /\ execution = NoExecution

ReplySpec == ReplyInit /\ [][ReplyNext]_vars

\* configure requests and the deliveries that start and end between them
ConfigureNext ==
    \/ \E url \in UrlInputs \cup {""}, enabled \in EnabledInputs :
          Configure(url, enabled)
    \/ \E d \in Calls, to \in InboundTo : StartDelivery(d, to)
    \/ \E d \in Calls, code \in HttpCodes : FetchResponds(d, code)
    \/ \E d \in Calls, text \in ErrorBodies : BodyRead(d, text)
    \/ AdvanceTime

ConfigureSpec == Init /\ [][ConfigureNext]_vars

\* everything that writes to the message store, reads from it or builds a
\* message of its own: sends and their timers, the readers, and the first
\* inbound message, simulated or a reply
StoreNext ==
    \/ \E to \in {"", "+15550001111"} : SendMessage(to, "", "hi")
    \/ \E t \in timers : SentTimerFires(t)
    \/ \E t \in timers : DeliveredTimerFires(t)
    \/ AdvanceTime
    \/ \E path \in {<<>>, <<"export">>, <<"msg_1">>} :
          Request([path |-> path, query |-> NoQuery])
    \/ GetConversations(ApiPort)
    \/ \E to \in InboundTo : StartDelivery(1, to)
    \/ \E to \in InboundTo : ReplySend("s1", 1, to)

StoreSpec == ReplyInit /\ [][StoreNext]_vars

\* the start command, up to its call of loadConfig
LoadNext ==
    /\ loaded = NotLoaded
    /\ \E options \in OptionInputs, env \in EnvInputs,
          files \in {<<>>} \cup {<<file>> : file \in FileInputs}
                    \cup {<<bad, good>> :
                            bad \in {file \in FileInputs :
                                        /\ file.apiPort = "invalid"
                                        /\ file.webhookUrl = Undefined
                                        /\ ~file.cors.has
                                        /\ ~file.logging.has},
                            good \in {file \in FileInputs :
                                         file.apiPort = "5001"}} :
          CallLoadConfig(options, env, files)

LoadSpec == Init /\ [][LoadNext]_vars

\* one execution of a stored flow
FlowNext ==
    \/ \E steps \in Flows, phone \in {Undefined, "+15550001111"} :
          ExecuteFlow(steps, phone)
    \/ FlowResumes

FlowSpec == Init /\ [][FlowNext]_vars
LifecycleSpec == Init /\ [][LifecycleNext]_vars
SendSpec == Init /\ [][SendNext]_vars
WebhookSpec == Init /\ [][WebhookNext]_vars
Spec == Init /\ [][Next]_vars

LifecycleFairness ==
    /\ WF_vars(AdvanceTime)
    /\ WF_vars(\E t \in timers : SentTimerFires(t))
    /\ WF_vars(\E t \in timers : DeliveredTimerFires(t))

\* timers fire and the process keeps running
LifecycleFairSpec == Init /\ [][SchedulerNext]_vars /\ LifecycleFairness

WebhookFairness ==
    /\ WF_vars(AdvanceTime)
    /\ WF_vars(\E d \in Calls : AttemptTimesOut(d))
    /\ WF_vars(\E d \in Calls : BackoffElapsed(d))

\* timers fire and the process keeps running; the remote endpoint owes nothing
WebhookFairSpec == WebhookSpec /\ WebhookFairness

(***************************************************************************)
(* Properties of the message lifecycle                                     *)
(***************************************************************************)
HasDeliveredAt(m) == "delivered_at" \in DOMAIN m

StatusRank(status) ==
    CASE status = "queued" -> 0
      [] status = "sent" -> 1
      [] status = "delivered" -> 2
      [] OTHER -> 3

\* the message:updated events emitted for message id, in order
UpdatesFor(id) ==
    LET isFor(e) == e.event = "message:updated" /\ e.payload.id = id
    IN SelectSeq(emitted, isFor)

\* C1: a stored message is created queued and its status only ever steps
\* queued -> sent and sent -> delivered: never backwards, never past sent in one
\* step, never away from delivered, never to failed.
C1_StatusStepsForward ==
    [][\A id \in DOMAIN messages' :
          IF id \in DOMAIN messages
          THEN \/ messages'[id].status = messages[id].status
               \/ messages[id].status = "queued" /\ messages'[id].status = "sent"
               \/ messages[id].status = "sent" /\ messages'[id].status = "delivered"
          ELSE messages'[id].status = "queued"]_vars

C1_Witness ==
    \E a, b \in DOMAIN messages :
        /\ messages[a].status = "delivered"
        /\ messages[b].status = "sent"

\* C2: a stored message has delivered_at exactly when its status is delivered,
\* and a delivered_at that is set keeps its value.
C2_DeliveredAtIffDelivered ==
    /\ [](\A id \in DOMAIN messages :
            HasDeliveredAt(messages[id]) <=> messages[id].status = "delivered")
    /\ [][\A id \in DOMAIN messages :
            HasDeliveredAt(messages[id]) =>
                /\ id \in DOMAIN messages'
                /\ HasDeliveredAt(messages'[id])
                /\ messages'[id].delivered_at = messages[id].delivered_at]_vars

C2_Witness ==
    \E a, b \in DOMAIN messages :
        /\ messages[a].status = "delivered" /\ HasDeliveredAt(messages[a])
        /\ messages[b].status = "sent" /\ ~HasDeliveredAt(messages[b])

\* a get on id answers 200 with the delivered record
GetShowsDelivered(id) ==
    /\ GetMessageResponse(id).code = 200
    /\ GetMessageResponse(id).body.status = "delivered"
    /\ HasDeliveredAt(GetMessageResponse(id).body)

\* C3: with fair timers every accepted message is eventually delivered with
\* delivered_at set, and from then on a get on its id always answers that.
C3_EventuallyDelivered ==
    \A id \in MessageIds : (id \in DOMAIN messages) ~> [](GetShowsDelivered(id))

C3_Witness ==
    \E a, b \in DOMAIN messages :
        /\ GetShowsDelivered(a)
        /\ GetMessageResponse(b).body.status = "queued"

\* C4: the message:updated events of a message are exactly one per transition
\* made so far, sent before delivered, each carrying the status just written
\* and, for the latest, the record as the store now holds it; no event is ahead
\* of the store and none is for a message the store does not hold.
C4_UpdatesFollowStore ==
    /\ \A id \in DOMAIN messages :
          LET ups == UpdatesFor(id)
              rank == StatusRank(messages[id].status)
          IN /\ Len(ups) = rank
             /\ \A k \in 1..Len(ups) :
                   /\ ups[k].payload.status = <<"sent", "delivered">>[k]
                   /\ k = rank => ups[k].payload = messages[id]
    /\ \A k \in 1..Len(emitted) :
          emitted[k].event = "message:updated" =>
              emitted[k].payload.id \in DOMAIN messages

C4_Witness ==
    \E a, b \in DOMAIN messages :
        /\ Len(UpdatesFor(a)) = 2
        /\ Len(UpdatesFor(b)) = 1

(***************************************************************************)
(* Properties of the webhook delivery                                      *)
(***************************************************************************)
TransportMessages == NetErrors \cup {AbortMessage}

HasError(ev) == "error" \in DOMAIN ev

\* the step in which call d returns its event
Returns(d) == InFlight(d) /\ dl'[d].pc = "returned"

\* C5: a delivery that never got a response, made while the retry count stayed
\* N >= 1, has made exactly N attempts when it returns (and never more on the
\* way), and returns status 0 with the last transport error message as error.
C5_ExactlyNAttempts ==
    /\ [](\A d \in Deliveries :
            (InFlight(d) /\ dl[d].stable /\ ~dl[d].responded) =>
                dl[d].fetches <= config.retries)
    /\ [][\A d \in Deliveries :
            (Returns(d) /\ dl'[d].stable /\ ~dl'[d].responded
                 /\ config.retries >= 1) =>
                /\ dl'[d].fetches = config.retries
                /\ dl'[d].event.status = 0
                /\ HasError(dl'[d].event)
                /\ dl'[d].event.error = dl'[d].lastError
                /\ dl'[d].lastError \in TransportMessages]_vars

C5_Witness ==
    \E d \in Deliveries :
        /\ dl[d].pc = "returned"
        /\ dl[d].stable /\ ~dl[d].responded
        /\ dl[d].fetches = 3
        /\ dl[d].event.status = 0
        /\ dl[d].event.error = AbortMessage

\* C6 as stated: once a response has come no further attempt is made, and the
\* returned event has the HTTP status code of the response, with a non-empty
\* error when the code is outside the success range.
C6_StatusIsHttpCode ==
    \A d \in Deliveries :
        (dl[d].pc = "returned" /\ dl[d].responded) =>
            /\ dl[d].event.status = dl[d].httpStatus
            /\ ~ResponseOk(dl[d].httpStatus) =>
                  (HasError(dl[d].event) /\ dl[d].event.error # "")

C8_NeverThrows == \A d \in Deliveries : dl[d].pc # "threw"

\* C9 as stated: every delivery that was started eventually returns its event.
C9_EveryDeliveryReturns ==
    \A d \in Deliveries : (dl[d].pc # "idle") ~> (dl[d].pc = "returned")

\* C10: a call made while the webhook is disabled or has no URL returns in the
\* same step, without any HTTP attempt, an event with status -1, error
\* "Webhook URL not configured" and duration 0.
C10_SkippedWhenNotConfigured ==
    /\ [](\A d \in Deliveries :
            (dl[d].pc = "returned" /\ dl[d].event.status = -1) =>
                dl[d].fetches = 0)
    /\ [][\A d \in Deliveries :
            (dl[d].pc = "idle" /\ dl'[d].pc # "idle"
                 /\ (~config.enabled \/ config.url \in {Undefined, ""})) =>
                /\ dl'[d].pc = "returned"
                /\ dl'[d].fetches = 0
                /\ dl'[d].event.status = -1
                /\ dl'[d].event.error = "Webhook URL not configured"
                /\ dl'[d].event.duration = 0]_vars

C10_Witness ==
    \E d \in Deliveries :
        /\ dl[d].pc = "returned"
        /\ dl[d].event.status = -1
        /\ dl[d].fetches = 0
        /\ ~config.enabled /\ config.url # Undefined

\* C11 as stated: a call that returns the skipped event also puts it at the
\* front of the history and broadcasts it as webhook:sent.
C11_SkippedIsObservable ==
    [][\A d \in Deliveries :
          (dl[d].pc = "idle" /\ dl'[d].pc = "returned"
               /\ dl'[d].event.status = -1) =>
              /\ webhookHistory' = <<dl'[d].event>> \o webhookHistory
              /\ emitted' = Append(emitted, [event |-> "webhook:sent",
                                             payload |-> dl'[d].event])]_vars

\* the webhook:sent broadcasts that carry the event with the given id
BroadcastsOf(id) ==
    LET isFor(e) == e.event = "webhook:sent" /\ e.payload.id = id
    IN SelectSeq(emitted, isFor)

\* the call was made with the webhook enabled and a URL set, and has ended
EndedAttempted(d) ==
    \/ dl[d].pc = "threw"
    \/ dl[d].pc = "returned" /\ dl[d].event.status # -1

\* C12 as stated: every delivery made with the webhook enabled and a URL set
\* ends with exactly one event, put once at the front of the history and then
\* broadcast once as webhook:sent, in the step in which the call returns.
C12_OneEventPerDelivery ==
    /\ [](\A d \in Deliveries :
            EndedAttempted(d) =>
                /\ Len(BroadcastsOf(dl[d].event.id)) = 1
                /\ BroadcastsOf(dl[d].event.id)[1].payload = dl[d].event)
    /\ [][\A d \in Deliveries :
            (InFlight(d) /\ ~InFlight(d)') =>
                /\ webhookHistory'[1] = dl'[d].event
                /\ emitted' = Append(emitted, [event |-> "webhook:sent",
                                               payload |-> dl'[d].event])]_vars

\* C13: the history never holds more than 100 entries, and an insertion into a
\* history of 100 puts the new event in front of the first 99 of them, in
\* their order, dropping the last.
C13_HistoryCapped ==
    /\ [](Len(webhookHistory) <= 100)
    /\ [][(Len(webhookHistory) = 100 /\ webhookHistory' # webhookHistory
              /\ webhookHistory' # <<>>) =>
             /\ Len(webhookHistory') = 100
             /\ \E d \in Calls : Returns(d) /\ webhookHistory'[1] = dl'[d].event
             /\ \A k \in 1..99 : webhookHistory'[k + 1] = webhookHistory[k]]_vars

C13_Witness ==
    /\ Len(webhookHistory) = 100
    /\ webhookHistory[1].id = WebhookId(100)
    /\ webhookHistory[2].id = WebhookId(99)
    /\ webhookHistory[100].id = WebhookId(1)
    /\ \A k \in 1..100 : webhookHistory[k].id # WebhookId(0)
    /\ \E d \in Calls : dl[d].pc = "returned"

\* position of call d's event in the history, 0 when it is not there
HistoryIndex(d) ==
    IF \E k \in 1..Len(webhookHistory) : webhookHistory[k].id = dl[d].event.id
    THEN CHOOSE k \in 1..Len(webhookHistory) :
             webhookHistory[k].id = dl[d].event.id
    ELSE 0

\* C14: the history is in order of completion, latest first, whatever the
\* order of the starts; a completion puts its event in front and keeps the
\* entries that were there (up to the cap) behind it in their order.
C14_OrderedByCompletion ==
    /\ [](\A a, b \in Calls :
            (HistoryIndex(a) > 0 /\ HistoryIndex(b) > 0 /\ a # b) =>
                (HistoryIndex(a) < HistoryIndex(b) <=> dl[a].order > dl[b].order))
    /\ [][\A d \in Calls :
            Returns(d) =>
                /\ dl'[d].order = CompletedSoFar + 1
                /\ webhookHistory'[1] = dl'[d].event
                /\ Len(webhookHistory') = Min(Len(webhookHistory) + 1, HistoryCap)
                /\ \A k \in 2..Len(webhookHistory') :
                      webhookHistory'[k] = webhookHistory[k - 1]]_vars

\* call 1 started first, retried, and completed after call 2
C14_Witness ==
    /\ DOMAIN dl = ConcurrentCalls
    /\ dl[1].pc = "returned" /\ dl[2].pc = "returned"
    /\ dl[1].fetches >= 2
    /\ dl[1].order > dl[2].order
    /\ HistoryIndex(1) = 1 /\ HistoryIndex(2) = 2

\* the events the service has handed out: returned, stored or broadcast
KnownEvents ==
    {dl[d].event : d \in {e \in Calls : dl[e].pc = "returned"}}
    \cup {webhookHistory[k] : k \in 1..Len(webhookHistory)}
    \cup {emitted[k].payload :
             k \in {j \in 1..Len(emitted) : emitted[j].event = "webhook:sent"}}

\* C15: an event has no error exactly when its status is in the success
\* range, which is exactly when the delivery got a success response; an error
\* that is present is not empty.
C15_ErrorIffNotSucceeded ==
    /\ \A ev \in KnownEvents :
          /\ HasError(ev) <=> ~(ev.status >= 200 /\ ev.status <= 299)
          /\ HasError(ev) => ev.error # ""
    /\ \A d \in Deliveries :
          dl[d].pc = "returned" =>
              (~HasError(dl[d].event) <=>
                   (dl[d].responded /\ dl[d].httpStatus >= 200
                        /\ dl[d].httpStatus <= 299))

C15_Witness ==
    \E d \in Deliveries :
        /\ dl[d].pc = "returned"
        /\ dl[d].fetches = 2
        /\ dl[d].event.status = 200 /\ ~HasError(dl[d].event)
        /\ webhookHistory = <<dl[d].event>>

\* C16 as stated: the url, enabled flag and retry count a delivery uses come
\* from one config version.  A call reads all of them when it starts, so this
\* says that no later read of the retry count gives another value.
C16_OneConfigVersion == \A d \in Deliveries : ~dl[d].mixed

\* C17: an update gives every field the partial names the supplied value and
\* leaves every other field as it was (the configure route names url and
\* enabled only); getConfig and a delivery that starts see the live config.
C17_UpdateMerges ==
    /\ [](/\ GetConfig(config) = config
          /\ \A url \in UrlInputs, enabled \in EnabledInputs :
                ~ConfigureRejects(url, enabled) =>
                    /\ ConfigurePartial(url, enabled) \in Partials
                    /\ ~ConfigurePartial(url, enabled).retries.has
                    /\ ~ConfigurePartial(url, enabled).timeout.has)
    /\ [][\A partial \in Partials :
            UpdateConfig(partial) =>
                \A k \in {"url", "enabled", "retries", "timeout"} :
                    GetConfig(config')[k] =
                        IF partial[k].has THEN partial[k].val ELSE config[k]]_vars
    /\ [][\A d \in Deliveries :
            (dl[d].pc = "idle" /\ dl'[d].pc # "idle") =>
                /\ dl'[d].event.status = -1 <=>
                      (~config.enabled \/ config.url \in {Undefined, ""})
                /\ dl'[d].pc = "threw" => config.retries = 0
                /\ dl'[d].pc = "fetching" =>
                      /\ dl'[d].event.url = config.url
                      /\ config.retries >= 1
                      /\ dl'[d].left * TickMs = config.timeout]_vars

\* url and enabled were configured after retries and timeout, which are kept
C17_Witness ==
    /\ config = [url |-> "http://localhost:3000/webhook", enabled |-> FALSE,
                 retries |-> 1, timeout |-> 1000]
    /\ \E d \in Deliveries : dl[d].pc = "returned" /\ dl[d].event.status = -1

SecretUrls == {"http://localhost:3000/webhook", "https://hooks.example.com/sms"}

\* C18 as stated: what getConfig, GET /config, POST /configure and GET /health
\* answer is the same for two configurations that differ only in the URL.
C18_OnlyUrlPresenceShown ==
    \A u1, u2 \in SecretUrls :
        LET c1 == [config EXCEPT !.url = u1]
            c2 == [config EXCEPT !.url = u2]
        IN /\ ConfigResponse(c1) = ConfigResponse(c2)
           /\ \A enabled \in EnabledInputs :
                 ConfigureResponse(u1, enabled) = ConfigureResponse(u2, enabled)
           /\ HealthResponse(u1) = HealthResponse(u2)
           /\ GetConfig(c1) = GetConfig(c2)

(***************************************************************************)
(* Properties of the socket handlers                                       *)
(***************************************************************************)
\* call d is made in this step by the reply handler of a socket
ReplyStarts(d) == dl[d].pc = "idle" /\ dl'[d].origin \in Sockets

\* C19: a reply to number N reaches, as one message:new carrying the reply,
\* every socket other than the sender that is in room N when the reply is
\* handled, and no other socket; nothing else is ever sent to a room.
C19_ReplyReachesRoom ==
    /\ [][\A d \in Calls :
            ReplyStarts(d) =>
                LET to == dl'[d].event.payload.to
                    sender == dl'[d].origin
                IN \A r \in Sockets :
                      IF r # sender /\ ("conversation:" \o to) \in rooms[r]
                      THEN /\ Len(inbox'[r]) = Len(inbox[r]) + 1
                           /\ SubSeq(inbox'[r], 1, Len(inbox[r])) = inbox[r]
                           /\ inbox'[r][Len(inbox'[r])].event = "message:new"
                           /\ inbox'[r][Len(inbox'[r])].payload.id = d
                           /\ inbox'[r][Len(inbox'[r])].payload.to = to
                      ELSE inbox'[r] = inbox[r]]_vars
    /\ [][inbox' # inbox => \E d \in Calls : ReplyStarts(d)]_vars

\* s1 replied to a number whose room holds s1 and s2, while s3 is in another
C19_Witness ==
    /\ \E d \in Calls : dl[d].origin = "s1"
                          /\ dl[d].event.payload.to = "+15550001111"
    /\ rooms["s1"] = {"conversation:+15550001111"}
    /\ rooms["s2"] = {"conversation:+15550001111"}
    /\ rooms["s3"] = {"conversation:+15550002222"}
    /\ inbox["s1"] = <<>>
    /\ Len(inbox["s2"]) = 1
    /\ inbox["s3"] = <<>>

\* C20 as stated: the reply is with the room members in the step that starts
\* its delivery, no later step of a delivery touches what they received, and
\* the call the reply handler awaits never rejects.
C20_PublishBeforeWebhook ==
    /\ [](\A d \in Deliveries : dl[d].origin \in Sockets => dl[d].pc # "threw")
    /\ [][\A d \in Deliveries :
            ReplyStarts(d) =>
                \A r \in Sockets :
                    (r # dl'[d].origin
                       /\ ("conversation:" \o dl'[d].event.payload.to) \in rooms[r])
                    => /\ Len(inbox'[r]) = Len(inbox[r]) + 1
                       /\ inbox'[r][Len(inbox'[r])].payload.id = d]_vars
    /\ [][(\E d \in Deliveries : dl[d].pc # "idle" /\ dl'[d] # dl[d]) =>
             inbox' = inbox]_vars

(***************************************************************************)
(* Properties of the conversations                                         *)
(***************************************************************************)
\* the response on hand is a conversation list
IsConversations == response.op = "conversations"

\* the places (conversation, position) at which the conversation list on hand
\* holds the stored message id
PlacesOf(id) ==
    {place \in UNION {{<<c, k>> : k \in DOMAIN response.body.conversations[c].messages} :
                        c \in DOMAIN response.body.conversations} :
        response.body.conversations[place[1]].messages[place[2]].id = id}

\* C21 as stated: in every conversation list, each stored message appears in
\* exactly one conversation, once, and every message of a conversation is a
\* message of the store.
C21_CompleteRegrouping ==
    IsConversations =>
        /\ \A id \in DOMAIN messages : Cardinality(PlacesOf(id)) = 1
        /\ \A c \in DOMAIN response.body.conversations :
              \A k \in DOMAIN response.body.conversations[c].messages :
                 LET m == response.body.conversations[c].messages[k]
                 IN m.id \in DOMAIN messages /\ messages[m.id] = m

\* C22 as stated: within every returned conversation the messages are in
\* ascending order of created_at.
C22_AscendingWithinConversation ==
    IsConversations =>
        \A c \in DOMAIN response.body.conversations :
            LET ms == response.body.conversations[c].messages
            IN \A i, j \in DOMAIN ms : i < j => ms[i].created_at <= ms[j].created_at

\* C23 as stated: a message sent from the simulator's default number to another
\* number R is in the conversation whose phoneNumber is R, whatever R is.
C23_GroupedUnderCounterparty ==
    IsConversations =>
        \A c \in DOMAIN response.body.conversations :
            LET conv == response.body.conversations[c]
            IN \A k \in DOMAIN conv.messages :
                  (conv.messages[k].from = DefaultFrom
                     /\ conv.messages[k].to # DefaultFrom)
                  => conv.phoneNumber = conv.messages[k].to

\* C24: the conversations of a conversation list are in descending order of
\* lastActivity, and the lastActivity of each is the greatest created_at among
\* its messages.
C24_SortedByLastActivity ==
    IsConversations =>
        /\ \A c, d \in DOMAIN response.body.conversations :
              c < d => response.body.conversations[c].lastActivity
                          >= response.body.conversations[d].lastActivity
        /\ \A c \in DOMAIN response.body.conversations :
              LET conv == response.body.conversations[c]
              IN /\ \E k \in DOMAIN conv.messages :
                       conv.messages[k].created_at = conv.lastActivity
                 /\ \A k \in DOMAIN conv.messages :
                       conv.messages[k].created_at <= conv.lastActivity

\* a list of two conversations, the first one with the later activity
C24_Witness ==
    /\ IsConversations
    /\ Len(response.body.conversations) = 2
    /\ response.body.conversations[1].lastActivity
          > response.body.conversations[2].lastActivity

(***************************************************************************)
(* Properties of the list and the export                                   *)
(***************************************************************************)
\* the response on hand is a list
IsList == response.op = "list"

\* the limit and the offset a list request asks for
AskedLimit(q) == IF q.limit.has THEN q.limit.val ELSE 20
AskedOffset(q) == IF q.offset.has THEN q.offset.val ELSE 0

\* the request names no filter
Unfiltered(q) ==
    /\ q.search = Undefined /\ q.status = Undefined /\ q.phone = Undefined
    /\ ~q.from_date.has /\ ~q.to_date.has

\* the stored messages created after m, and those created no earlier than m
NewerThan(m) == {id \in DOMAIN messages : messages[id].created_at > m.created_at}
NoOlderThan(m) == {id \in DOMAIN messages : messages[id].created_at >= m.created_at}

\* C25: a list without filters reports as total the number of stored
\* messages, and its items are the stored messages at positions
\* [offset, offset + limit) of the store in descending order of created_at:
\* as many as these positions hold, each a stored message, none twice, and
\* the item at position p has fewer than p messages newer than it and at
\* least p messages no older.
C25_UnfilteredList ==
    (IsList /\ Unfiltered(response.request.query)) =>
        LET limit == AskedLimit(response.request.query)
            offset == AskedOffset(response.request.query)
            stored == Cardinality(DOMAIN messages)
            items == response.body.messages
            expected == IF offset >= stored THEN 0
                        ELSE IF offset + limit >= stored THEN stored - offset
                        ELSE limit
        IN /\ response.body.pagination.total = stored
           /\ Len(items) = expected
           /\ \A k \in DOMAIN items :
                 /\ items[k].id \in DOMAIN messages
                 /\ messages[items[k].id] = items[k]
                 /\ Cardinality(NewerThan(items[k])) < offset + k
                 /\ Cardinality(NoOlderThan(items[k])) >= offset + k
           /\ \A k, l \in DOMAIN items : k # l => items[k].id # items[l].id

\* the second page of one, of a store of two messages of different ages: it
\* holds the older one
C25_Witness ==
    /\ IsList
    /\ Unfiltered(response.request.query)
    /\ response.request.query.limit = Given(1)
    /\ response.request.query.offset = Given(1)
    /\ Cardinality(DOMAIN messages) = 2
    /\ messages[1].created_at < messages[2].created_at
    /\ Len(response.body.messages) = 1
    /\ response.body.messages[1].id = 1

\* C26: in every list response has_more is true exactly when offset + limit
\* is less than total, which is exactly when total exceeds the number of
\* matching messages up to the end of the returned page.
C26_HasMore ==
    IsList =>
        LET limit == AskedLimit(response.request.query)
            offset == AskedOffset(response.request.query)
            page == response.body.pagination
        IN /\ page.has_more = (offset + limit < page.total)
           /\ page.has_more = (page.total > offset + Len(response.body.messages))

\* a page of one that ends before the second of two matching messages
C26_Witness ==
    /\ IsList
    /\ response.body.pagination.has_more
    /\ response.body.pagination.total = 2
    /\ Len(response.body.messages) = 1

\* text part occurs in text s, as it is written
OccursIn(part, s) == Includes(Chars(s), Chars(part))

\* text part occurs in text s, the case of the letters aside
OccursInIgnoringCase(part, s) ==
    Includes(ToLowerCase(Chars(s)), ToLowerCase(Chars(part)))

\* what query q asks of a message, the phone filter aside
MatchesOthers(m, q) ==
    /\ q.search # Undefined =>
          \/ OccursInIgnoringCase(q.search, m.to)
          \/ OccursInIgnoringCase(q.search, m.from)
          \/ OccursInIgnoringCase(q.search, m.body)
    /\ q.status # Undefined => m.status = q.status
    /\ q.from_date.has => m.created_at >= q.from_date.val
    /\ q.to_date.has => m.created_at <= q.to_date.val

\* the ids of the messages of a list response when it shows them all
ListedIds == {response.body.messages[k].id : k \in DOMAIN response.body.messages}

\* the list response on hand counts the stored messages in the set ids, and
\* shows no other
Counts(ids) ==
    /\ response.body.pagination.total = Cardinality(ids)
    /\ ListedIds \subseteq ids
    /\ (~response.request.query.offset.has
          /\ Cardinality(ids) <= AskedLimit(response.request.query))
       => ListedIds = ids

\* C27 as stated: a list counts exactly the stored messages that satisfy every
\* supplied filter, the phone filter being a substring of to or from.
C27_FiltersAsStated ==
    IsList =>
        Counts({id \in DOMAIN messages :
                  /\ MatchesOthers(messages[id], response.request.query)
                  /\ response.request.query.phone # Undefined =>
                        \/ OccursIn(response.request.query.phone, messages[id].to)
                        \/ OccursIn(response.request.query.phone, messages[id].from)})

\* C27 as amended: a list counts exactly the stored messages that satisfy
\* every supplied filter: search is a case-insensitive substring of to, from
\* or body, status is an exact match, phone is a case-insensitive substring of
\* to or from, from_date and to_date bound created_at inclusively, and an
\* absent filter excludes nothing.
C27_FiltersIgnoringCase ==
    IsList =>
        Counts({id \in DOMAIN messages :
                  /\ MatchesOthers(messages[id], response.request.query)
                  /\ response.request.query.phone # Undefined =>
                        \/ OccursInIgnoringCase(response.request.query.phone,
                                                messages[id].to)
                        \/ OccursInIgnoringCase(response.request.query.phone,
                                                messages[id].from)})

\* a list with a lower date bound that is the creation time of the one message
\* it counts, of a store of two
C27_Witness ==
    /\ IsList
    /\ response.request.query.from_date = Given(1)
    /\ Cardinality(DOMAIN messages) = 2
    /\ response.body.pagination.total = 1
    /\ response.body.messages[1].created_at = 1

\* the list of created_at values is in ascending order
Ascending(ms) == \A i, j \in DOMAIN ms : i < j => ms[i].created_at <= ms[j].created_at

\* C28 as stated: a GET request for /export on the messages router is answered
\* with the stored messages that match its phone and date filters, in ascending
\* order of created_at.
C28_ExportReturnsAscending ==
    ("request" \in DOMAIN response /\ response.request.path = <<"export">>) =>
        /\ response.op = "export"
        /\ response.code = 200
        /\ Ascending(response.body.messages)
        /\ {response.body.messages[k].id : k \in DOMAIN response.body.messages}
              = {id \in DOMAIN messages :
                    LET m == messages[id]
                        q == response.request.query
                    IN /\ q.phone # Undefined =>
                             \/ OccursInIgnoringCase(q.phone, m.to)
                             \/ OccursInIgnoringCase(q.phone, m.from)
                       /\ q.from_date.has => m.created_at >= q.from_date.val
                       /\ q.to_date.has => m.created_at <= q.to_date.val}

(***************************************************************************)
(* Properties of the send endpoint                                         *)
(***************************************************************************)
\* a to or a body that is missing or empty
Blank(text) == text = Undefined \/ text = ""

\* C29: a send request whose to or body is missing or empty is answered with
\* the validation error (400) and leaves the store, the pending lifecycle
\* timers and the emitted events as they were: every answer to a send other
\* than the 400 echoes a to and a body that are not blank, no stored message
\* has a blank to or body, and the step that answers 400 changes nothing but
\* the response.
C29_RejectedBeforeStore ==
    /\ [](\A id \in DOMAIN messages :
             ~Blank(messages[id].to) /\ ~Blank(messages[id].body))
    /\ [][(response' # response /\ response'.op = "send" /\ response'.code # 400)
          => /\ response'.code = 201
             /\ ~Blank(response'.body.to)
             /\ ~Blank(response'.body.body)]_vars
    /\ [][(response' # response /\ response'.op = "send" /\ response'.code = 400)
          => /\ messages' = messages
             /\ timers' = timers
             /\ emitted' = emitted]_vars

\* a send was rejected while the store held a message whose lifecycle was
\* under way
C29_Witness ==
    /\ response = [op |-> "send", code |-> 400]
    /\ Cardinality(DOMAIN messages) = 1
    /\ messages[1].status = "sent"
    /\ Cardinality(timers) = 1
    /\ Len(emitted) = 1

\* C30: the step that accepts a send request answers 201 with status queued,
\* leaves the new record queued in the store with its first lifecycle timer
\* still to run its full delay, and emits nothing: no message:updated event
\* for the new id exists when the response is produced.
C30_AcceptedIsQueued ==
    [][DOMAIN messages' # DOMAIN messages =>
          \E id \in DOMAIN messages' \ DOMAIN messages :
             /\ DOMAIN messages' = DOMAIN messages \cup {id}
             /\ response'.op = "send"
             /\ response'.code = 201
             /\ response'.body.id = id
             /\ response'.body.status = "queued"
             /\ messages'[id].status = "queued"
             /\ [id |-> id, stage |-> "sent", left |-> Ticks(SentDelayMs)] \in timers'
             /\ emitted' = emitted
             /\ \A k \in DOMAIN emitted' :
                   emitted'[k].event = "message:updated"
                   => emitted'[k].payload.id # id]_vars

\* the second send has just been answered, the first message being sent
\* already
C30_Witness ==
    /\ response.op = "send"
    /\ response.code = 201
    /\ response.body.id = 2
    /\ response.body.status = "queued"
    /\ messages[2].status = "queued"
    /\ messages[1].status = "sent"
    /\ UpdatesFor(2) = <<>>
    /\ UpdatesFor(1) # <<>>

(***************************************************************************)
(* Properties of the configuration loading                                 *)
(***************************************************************************)
\* a file that holds a port that is no number or lies outside 1024..65535
InvalidFile(file) == file.apiPort \in {"invalid", "99999"}

\* what the configuration file that counts as a source, the first valid
\* one, says of each setting (Undefined: nothing)
FileSettings ==
    LET valid == {i \in DOMAIN loaded.files : ~InvalidFile(loaded.files[i])}
        file == loaded.files[CHOOSE i \in valid : \A j \in valid : i <= j]
    IN IF valid = {}
       THEN [apiPort |-> Undefined, webhookUrl |-> Undefined,
             level |-> Undefined, logging |-> Undefined, cors |-> Undefined]
       ELSE [apiPort |-> file.apiPort, webhookUrl |-> file.webhookUrl,
             level |-> IF file.logging.has THEN file.logging.val.level
                       ELSE Undefined,
             logging |-> IF file.logging.has THEN file.logging.val.enabled
                         ELSE Undefined,
             cors |-> IF file.cors.has THEN file.cors.val.enabled
                      ELSE Undefined]

\* the value of a setting: that of the first source, in the order given, that
\* provides it
FirstProvided(sources) ==
    sources[CHOOSE i \in DOMAIN sources :
               sources[i].has /\ \A j \in 1..(i - 1) : ~sources[j].has].val

Provided(present, v) == [has |-> present, val |-> v]

\* C32 as stated: every setting is loaded from the highest-priority source
\* that provides it, in the order CLI arguments, environment variables,
\* configuration file, defaults.  SMS_DEV_VERBOSE=true is read as providing
\* verbose and logging.enabled, SMS_DEV_CORS_ORIGINS as providing cors.origins
\* and cors.enabled.
C32_StrictPrecedence ==
    loaded.op = "loadConfig" =>
        /\ ~loaded.threw
        /\ LET options == loaded.options
               env == loaded.env
               file == FileSettings
           IN /\ loaded.config.apiPort = FirstProvided(<<
                    options.apiPort,
                    Provided(env.SMS_DEV_API_PORT # Undefined, 7001),
                    Provided(file.apiPort # Undefined, 5001),
                    Provided(TRUE, 4001)>>)
              /\ loaded.config.webhookUrl = FirstProvided(<<
                    Provided(options.webhookUrl # Undefined, options.webhookUrl),
                    Provided(env.SMS_DEV_WEBHOOK_URL # Undefined,
                             env.SMS_DEV_WEBHOOK_URL),
                    Provided(file.webhookUrl # Undefined, file.webhookUrl),
                    Provided(TRUE, Undefined)>>)
              /\ loaded.config.verbose = FirstProvided(<<
                    Provided(options.verbose # Undefined,
                             options.verbose = "true"),
                    Provided(env.SMS_DEV_VERBOSE = "true", TRUE),
                    Provided(TRUE, FALSE)>>)
              /\ loaded.config.logging.level = FirstProvided(<<
                    Provided(env.SMS_DEV_LOG_LEVEL \in LogLevels,
                             env.SMS_DEV_LOG_LEVEL),
                    Provided(file.level # Undefined, file.level),
                    Provided(TRUE, "info")>>)
              /\ loaded.config.logging.enabled = FirstProvided(<<
                    Provided(env.SMS_DEV_VERBOSE = "true", TRUE),
                    Provided(file.logging # Undefined, file.logging = "true"),
                    Provided(TRUE, TRUE)>>)
              /\ loaded.config.cors.enabled = FirstProvided(<<
                    Provided(env.SMS_DEV_CORS_ORIGINS # Undefined, TRUE),
                    Provided(file.cors # Undefined, file.cors = "true"),
                    Provided(TRUE, TRUE)>>)
              /\ loaded.config.cors.origins = FirstProvided(<<
                    Provided(env.SMS_DEV_CORS_ORIGINS # Undefined,
                             <<env.SMS_DEV_CORS_ORIGINS>>),
                    Provided(TRUE, <<"*">>)>>)

\* C34: a load that meets a configuration file with an invalid port does not
\* throw, and returns a configuration that holds every setting: ports in
\* range, both flags of cors and logging, a known log level.
C34_InvalidFileDoesNotThrow ==
    (/\ loaded.op = "loadConfig"
     /\ \E i \in DOMAIN loaded.files : InvalidFile(loaded.files[i])) =>
        /\ ~loaded.threw
        /\ DOMAIN loaded.config = {"apiPort", "uiPort", "webhookUrl", "cors",
                                   "logging", "startUI", "verbose"}
        /\ loaded.config.apiPort \in 1024..65535
        /\ loaded.config.uiPort \in 1024..65535
        /\ DOMAIN loaded.config.cors = {"enabled", "origins"}
        /\ loaded.config.cors.enabled \in BOOLEAN
        /\ DOMAIN loaded.config.logging = {"enabled", "level"}
        /\ loaded.config.logging.enabled \in BOOLEAN
        /\ loaded.config.logging.level \in LogLevels
        /\ loaded.config.startUI \in BOOLEAN
        /\ loaded.config.verbose \in BOOLEAN

\* the only file has an invalid port and more settings: none of them is used;
\* or an invalid file is passed over for the valid one after it
C34_Witness ==
    /\ loaded.op = "loadConfig"
    /\ ~loaded.threw
    /\ \/ /\ Len(loaded.files) = 1
          /\ loaded.files[1].apiPort = "99999"
          /\ loaded.files[1].cors.has
          /\ loaded.env.SMS_DEV_API_PORT = Undefined
          /\ ~loaded.options.apiPort.has
          /\ loaded.config.apiPort = 4001
          /\ loaded.config.cors.enabled
       \/ /\ Len(loaded.files) = 2
          /\ loaded.files[1].apiPort = "invalid"
          /\ loaded.env.SMS_DEV_API_PORT = Undefined
          /\ ~loaded.options.apiPort.has
          /\ loaded.config.apiPort = 5001

\* C38 as stated: no source supplies logging.enabled or cors.enabled above the
\* configuration file but SMS_DEV_CORS_ORIGINS, so the file's logging.enabled
\* is the loaded one, and so is its cors.enabled when the environment names no
\* origins.
C38_LowerSourceKept ==
    (loaded.op = "loadConfig" /\ ~loaded.threw) =>
        /\ FileSettings.logging # Undefined =>
              loaded.config.logging.enabled = (FileSettings.logging = "true")
        /\ (FileSettings.level # Undefined
                /\ loaded.env.SMS_DEV_LOG_LEVEL \notin LogLevels) =>
              loaded.config.logging.level = FileSettings.level
        /\ (FileSettings.cors # Undefined
                /\ loaded.env.SMS_DEV_CORS_ORIGINS = Undefined) =>
              loaded.config.cors.enabled = (FileSettings.cors = "true")

(***************************************************************************)
(* Properties of the conversation flows                                    *)
(***************************************************************************)
\* the positions in emitted of the events with the given name
EmittedAt(event) == {k \in DOMAIN emitted : emitted[k].event = event}

\* C40 as stated: no send step that comes after a condition step that
\* evaluated to false emits flow:message, and flow:completed is emitted once,
\* as the last event, by every execution that has ended, and not before.
C40_FalseConditionSkipsRest ==
    /\ \A k \in EmittedAt("flow:message") :
          \A j \in 1..(emitted[k].payload.step_id - 1) :
             ~(/\ execution.steps[j].type = "condition"
               /\ ~EvaluateCondition(execution.steps[j].condition))
    /\ Cardinality(EmittedAt("flow:completed"))
          = IF execution.pc = "done" THEN 1 ELSE 0
    /\ execution.pc = "done" => emitted[Len(emitted)].event = "flow:completed"

(***************************************************************************)
(* Properties of the lifecycle timers                                      *)
(***************************************************************************)
\* C35: a step changes the record of at most one stored message, and of that
\* record the status at most, and delivered_at, which it adds when the status
\* becomes delivered; id, to, from, body, created_at and cost stay as the send
\* endpoint wrote them.
C35_TransitionChangesOnlyStatus ==
    [][/\ \A id \in DOMAIN messages :
             /\ id \in DOMAIN messages'
             /\ \A field \in {"id", "to", "from", "body", "created_at", "cost"} :
                   messages'[id][field] = messages[id][field]
             /\ DOMAIN messages'[id] \subseteq
                   DOMAIN messages[id] \cup {"delivered_at"}
             /\ "delivered_at" \in DOMAIN messages'[id] \ DOMAIN messages[id] =>
                   /\ messages[id].status = "sent"
                   /\ messages'[id].status = "delivered"
       /\ Cardinality({id \in DOMAIN messages :
                          messages'[id] # messages[id]}) <= 1]_vars

\* two messages with different recipients, one delivered while the other has
\* made its first transition only
C35_Witness ==
    \E a, b \in DOMAIN messages :
        /\ messages[a].status = "delivered"
        /\ messages[b].status = "sent"
        /\ messages[a].to # messages[b].to
        /\ messages[a].created_at = messages[b].created_at

\* C36: every stored message that is queued has exactly one pending timer,
\* the one that marks it sent; every sent message exactly one, the one that
\* marks it delivered; a delivered message none; and no timer is pending for
\* an id the store does not hold.
C36_OnePendingTransition ==
    /\ \A id \in DOMAIN messages :
          LET pending == {t \in timers : t.id = id}
          IN /\ Cardinality(pending)
                   = IF messages[id].status = "delivered" THEN 0 ELSE 1
             /\ \A t \in pending :
                   t.stage = IF messages[id].status = "queued"
                             THEN "sent" ELSE "delivered"
    /\ \A t \in timers : t.id \in DOMAIN messages

C36_Witness ==
    \E a, b \in DOMAIN messages :
        /\ messages[a].status = "sent"
        /\ messages[b].status = "queued"
        /\ \E t \in timers : t.id = a /\ t.stage = "delivered" /\ t.left = 1
        /\ \E t \in timers : t.id = b /\ t.stage = "sent" /\ t.left = 0

(***************************************************************************)
(* Properties of the configure route                                       *)
(***************************************************************************)
\* a URL was supplied: the body holds a url that is not the empty text
UrlSupplied(url) == url \notin {Undefined, ""}

\* C37: a configure request without a URL that does not set enabled to false
\* is answered 400 and leaves the live configuration as it was; after any
\* request that is not answered 400 the configuration lets deliveries be
\* attempted exactly if a URL was supplied and enabled is not false, and the
\* next call that starts is a first attempt at that URL in that case and
\* returns the skipped event in the other.
C37_ConfigureRejectsOrApplies ==
    /\ [][\A url \in UrlInputs \cup {""}, enabled \in EnabledInputs :
            Configure(url, enabled) =>
                /\ (~UrlSupplied(url) /\ enabled # "false") =>
                      /\ response'.code = 400
                      /\ config' = config
                /\ response'.code # 400 =>
                      /\ response'.code = 200
                      /\ (config'.enabled /\ UrlSupplied(config'.url))
                            <=> (UrlSupplied(url) /\ enabled # "false")
                      /\ UrlSupplied(url) => config'.url = url
                      /\ config'.retries = config.retries
                      /\ config'.timeout = config.timeout]_vars
    /\ [][\A d \in Deliveries :
            (/\ dl[d].pc = "idle" /\ dl'[d].pc # "idle"
             /\ response.op = "configure" /\ response.code = 200) =>
                IF UrlSupplied(response.request.url)
                      /\ response.request.enabled # "false"
                THEN /\ dl'[d].pc = "fetching"
                     /\ dl'[d].fetches = 1
                     /\ dl'[d].event.url = response.request.url
                ELSE /\ dl'[d].pc = "returned"
                     /\ dl'[d].fetches = 0
                     /\ dl'[d].event.status = StatusSkipped]_vars

\* a request without URL was rejected by a server that has a URL, and the
\* delivery that started after it went to that URL
C37_Witness ==
    /\ response.op = "configure" /\ response.code = 400
    /\ response.request.url = "" /\ response.request.enabled = Undefined
    /\ config.url = "http://localhost:3000/webhook" /\ config.enabled
    /\ \E d \in Deliveries : dl[d].pc = "fetching"

(***************************************************************************)
(* Properties of the message store                                         *)
(***************************************************************************)
\* the messages an answer of a reader of the store holds
MessagesIn(answer) ==
    IF answer.op = "get" /\ answer.code = 200 THEN {answer.body}
    ELSE IF answer.op \in {"list", "export"}
    THEN {answer.body.messages[k] : k \in DOMAIN answer.body.messages}
    ELSE IF answer.op = "conversations"
    THEN UNION {{answer.body.conversations[c].messages[k] :
                    k \in DOMAIN answer.body.conversations[c].messages} :
                   c \in DOMAIN answer.body.conversations}
    ELSE {}

\* C39: the store gains a record only on the step that answers 201 to a send,
\* and it is the record that answer echoes; no step removes a record; a step
\* that starts the delivery of a simulated inbound message or publishes a
\* reply to its room leaves the store as it is; and what get, list, export and
\* the conversation list answer are records the store holds at that moment.
C39_StoreHoldsSentMessagesOnly ==
    /\ [][/\ DOMAIN messages \subseteq DOMAIN messages'
          /\ DOMAIN messages' # DOMAIN messages =>
                /\ response'.op = "send" /\ response'.code = 201
                /\ DOMAIN messages' \ DOMAIN messages = {response'.body.id}
                /\ messages'[response'.body.id] = response'.body]_vars
    /\ [][((\E d \in Deliveries : dl[d].pc = "idle" /\ dl'[d].pc # "idle")
              \/ inbox' # inbox) => messages' = messages]_vars
    /\ [][response' # response =>
             MessagesIn(response') \subseteq
                {messages'[id] : id \in DOMAIN messages'}]_vars

\* a reply has been published and handed to the webhook delivery, the store
\* holds a sent message, and the list on hand shows that one message
C39_Witness ==
    /\ \E s \in Sockets : inbox[s] # <<>>
    /\ \E d \in Deliveries : dl[d].origin \in Sockets
    /\ DOMAIN messages = {1}
    /\ response.op = "list"
    /\ MessagesIn(response) = {messages[1]}

====
